---- MODULE Spec2Model ----
(***************************************************************************)
(* Model of the disaster-data sanitation pipeline of                       *)
(* src/drrm_datasets/sanitizer_test.py: the free-text date-range parser    *)
(* parse_date_range_smart, and sanitize_data (load, normalise, PSGC join,  *)
(* per-row validation, clean/erroneous partition); of the resubmission     *)
(* step of src/process_error_rows.py (process_error_file and its file      *)
(* loop); of handle_import and handle_export of src/data_manager.py; of    *)
(* create_lookup_from_geojson of src/psgc_lookup.py; and of the farmer     *)
(* registry loader of src/process_farmer_registry.py.  Each program is a   *)
(* machine of its own over its own variables.                              *)
(*                                                                         *)
(* Python values are records [t, n, s]: t is the type tag ("none", "nan",  *)
(* "num", "str", "date", "inf"), n the number (a date is y*10000 + m*100   *)
(* + d, so                                                                 *)
(* that date order is integer order), s the text.  Text is a TLA+ string,  *)
(* read character by character with SubSeq.                                *)
(***************************************************************************)
EXTENDS Integers, Sequences, FiniteSets, TLC

VARIABLES
    ppc,                \* parser harness: "call" before, "returned" after the call
    date_str,           \* parse_date_range_smart argument 1 (python value)
    year_original_val,  \* parse_date_range_smart argument 2 (python value)
    parse_result,       \* the returned (start_date, end_date, remark)
    pc,                 \* sanitize_data position
    sheet,              \* the rows of the Excel sheet below the header, in order
    psgc_file,          \* the rows of psgc_lookup.csv
    psgc_exists,        \* os.path.exists(psgc_lookup_path)
    psgc_lookup_df,     \* the loaded lookup (a sequence), when has_lookup
    has_lookup,         \* psgc_lookup_df is not None
    df_original_structure, \* the loaded rows with source_row_number, by index label
    df_processed,       \* the processed frame: a sequence of rows carrying their label
    error_reasons,      \* the validation loop's list
    clean_rows,         \* written clean output
    erroneous_rows,     \* written erroneous output
    epc,                \* process_error_rows main: "start", "loop", "done", "aborted"
    error_input,        \* the *.csv files in ./error_input/, in glob order
    processed_error,    \* the files in ./error_input/processed/, in order of arrival
    quarantine,         \* the rows of the quarantine Delta table
    quarantine_exists,  \* os.path.exists(QUARANTINE_LAKEHOUSE_PATH)
    error_files,        \* the list glob returned to the main loop
    error_no,           \* position of the main loop in error_files
    error_processed_count, \* processed_count of process_error_rows
    error_failed_count, \* failed_count of process_error_rows
    error_runs,         \* how many times the script has been started
    ipc,                \* handle_import: "start", "loop", "done"
    raw_data,           \* the *.csv files in the raw data inbox, in glob order
    processed_data,     \* the files in the processed archive, in order of arrival
    lakehouse,          \* the rows of the main Delta table
    lakehouse_exists,   \* os.path.exists(LAKEHOUSE_PATH)
    mode_override,      \* handle_import's argument
    csv_files,          \* the list glob returned to handle_import
    file_no,            \* position of handle_import's loop in csv_files
    first_file,         \* handle_import's first_file flag
    write_mode,         \* handle_import's write_mode
    processed_count,    \* handle_import's processed_count
    failed_count,       \* handle_import's failed_count
    attempted,          \* names of the files the current run has read, in order
    written,            \* names of the files whose rows were committed, over all runs
    import_runs,        \* how many times handle_import has been called
    lpc,                \* psgc_lookup.py and the join on its file: "start", "created", "joined"
    geojson,            \* the features of the boundary GeoJSON, in file order
    lookup_csv,         \* the rows of psgc_lookup.csv as written by psgc_lookup.py
    joined,             \* the sheet rows after the left join against the loaded lookup
    xpc,                \* one import followed by handle_export: "start", "imported", "exported"
    clean_csv,          \* the data rows of a clean CSV file, cells as text
    csv_has_psgc,       \* the file has a psgc_code column
    main_disasters_df,  \* the main table as handle_export reads it
    api_data,           \* the aggregated municipalities written by handle_export
    npc,                \* clean_numeric_column harness: "start" before, "cleaned" after
    series,             \* the raw cells of one numeric column
    cleaned_series,     \* the column clean_numeric_column returns
    fpc,                \* farmer registry loader, "idle", "start", "loop" or "done"
    farmer_input,       \* XLSX files in FARMER_INPUT_DIR
    farmer_processed,   \* XLSX files in PROCESSED_FARMER_DIR
    farmer_table,       \* rows of the Delta table at FARMER_LAKEHOUSE_PATH
    farmer_exists,      \* does FARMER_LAKEHOUSE_PATH exist
    selected_mode,      \* args.mode
    raw_files,          \* the names glob returned, in its order
    farmer_no,          \* position of the loop in raw_files (i + 1)
    farmer_processed_count, \* processed_count of the loader
    farmer_failed_count     \* failed_count of the loader

parseVars == <<ppc, date_str, year_original_val, parse_result>>
sanVars == <<pc, sheet, psgc_file, psgc_exists, psgc_lookup_df, has_lookup,
             df_original_structure, df_processed, error_reasons, clean_rows,
             erroneous_rows>>
quarantineVars == <<epc, error_input, processed_error, quarantine, quarantine_exists,
                    error_files, error_no, error_processed_count, error_failed_count,
                    error_runs>>
importVars == <<ipc, raw_data, processed_data, lakehouse, lakehouse_exists, mode_override,
                csv_files, file_no, first_file, write_mode, processed_count,
                failed_count, attempted, written, import_runs>>
lookupVars == <<lpc, geojson, lookup_csv, joined>>
exportVars == <<xpc, clean_csv, csv_has_psgc, main_disasters_df, api_data>>
numericVars == <<npc, series, cleaned_series>>
farmerVars == <<fpc, farmer_input, farmer_processed, farmer_table, farmer_exists, selected_mode, raw_files, farmer_no, farmer_processed_count, farmer_failed_count>>
vars == <<parseVars, sanVars, quarantineVars, importVars, lookupVars, exportVars, numericVars, farmerVars>>

(* process_error_rows and handle_import at rest *)

QuarantineIdle ==
    /\ epc = "idle"
    /\ error_input = <<>>
    /\ processed_error = <<>>
    /\ quarantine = <<>>
    /\ quarantine_exists = FALSE
    /\ error_files = <<>>
    /\ error_no = 0
    /\ error_processed_count = 0
    /\ error_failed_count = 0
    /\ error_runs = 0

ImportIdle ==
    /\ ipc = "idle"
    /\ raw_data = <<>>
    /\ processed_data = <<>>
    /\ lakehouse = <<>>
    /\ lakehouse_exists = FALSE
    /\ mode_override = "None"
    /\ csv_files = <<>>
    /\ file_no = 0
    /\ first_file = TRUE
    /\ write_mode = "append"
    /\ processed_count = 0
    /\ failed_count = 0
    /\ attempted = <<>>
    /\ written = <<>>
    /\ import_runs = 0

LookupIdle ==
    /\ lpc = "idle"
    /\ geojson = <<>>
    /\ lookup_csv = <<>>
    /\ joined = <<>>

ExportIdle ==
    /\ xpc = "idle"
    /\ clean_csv = <<>>
    /\ csv_has_psgc = FALSE
    /\ main_disasters_df = <<>>
    /\ api_data = <<>>

NumericIdle ==
    /\ npc = "idle"
    /\ series = <<>>
    /\ cleaned_series = <<>>

FarmerIdle ==
    /\ fpc = "idle"
    /\ farmer_input = <<>>
    /\ farmer_processed = <<>>
    /\ farmer_table = <<>>
    /\ farmer_exists = FALSE
    /\ selected_mode = "append"
    /\ raw_files = <<>>
    /\ farmer_no = 0
    /\ farmer_processed_count = 0
    /\ farmer_failed_count = 0

----------------------------------------------------------------------------
(* Python values *)

PyNone == [t |-> "none", n |-> 0, s |-> ""]
PyNaN == [t |-> "nan", n |-> 0, s |-> ""]
PyNum(v) == [t |-> "num", n |-> v, s |-> ""]
PyStr(x) == [t |-> "str", n |-> 0, s |-> x]
PyDate(v) == [t |-> "date", n |-> v, s |-> ""]
PyInf == [t |-> "inf", n |-> 0, s |-> ""]      \* float('inf')

isna(v) == v.t \in {"none", "nan"}
notna(v) == ~isna(v)

----------------------------------------------------------------------------
(* Characters and strings *)

UpperSeq == <<"A", "B", "C", "D", "E", "F", "G", "H", "I", "J", "K", "L", "M",
              "N", "O", "P", "Q", "R", "S", "T", "U", "V", "W", "X", "Y", "Z">>
LowerSeq == <<"a", "b", "c", "d", "e", "f", "g", "h", "i", "j", "k", "l", "m",
              "n", "o", "p", "q", "r", "s", "t", "u", "v", "w", "x", "y", "z">>
DigitSeq == <<"0", "1", "2", "3", "4", "5", "6", "7", "8", "9">>

UpperSet == {UpperSeq[i] : i \in 1..26}
LowerSet == {LowerSeq[i] : i \in 1..26}
DigitSet == {DigitSeq[i] : i \in 1..10}

ToLower == [c \in UpperSet |-> LowerSeq[CHOOSE i \in 1..26 : UpperSeq[i] = c]]
ToUpper == [c \in LowerSet |-> UpperSeq[CHOOSE i \in 1..26 : LowerSeq[i] = c]]
DigitValue == [c \in DigitSet |-> (CHOOSE i \in 1..10 : DigitSeq[i] = c) - 1]

CharAt(s, i) == SubSeq(s, i, i)

IsDigit(c) == c \in DigitSet
IsLetter(c) == c \in UpperSet \/ c \in LowerSet
IsWordChar(c) == IsDigit(c) \/ IsLetter(c) \/ c = "_"
IsSpace(c) == c = " "

AllDigits(s) == Len(s) > 0 /\ \A i \in 1..Len(s) : IsDigit(CharAt(s, i))
AllLetters(s) == Len(s) > 0 /\ \A i \in 1..Len(s) : IsLetter(CharAt(s, i))

LowerChar(c) == IF c \in UpperSet THEN ToLower[c] ELSE c
UpperChar(c) == IF c \in LowerSet THEN ToUpper[c] ELSE c

RECURSIVE lower(_)
lower(s) == IF s = "" THEN "" ELSE LowerChar(CharAt(s, 1)) \o lower(SubSeq(s, 2, Len(s)))

RECURSIVE upper(_)
upper(s) == IF s = "" THEN "" ELSE UpperChar(CharAt(s, 1)) \o upper(SubSeq(s, 2, Len(s)))

RECURSIVE lstrip(_)
lstrip(s) == IF s # "" /\ IsSpace(CharAt(s, 1)) THEN lstrip(SubSeq(s, 2, Len(s))) ELSE s

RECURSIVE rstrip(_)
rstrip(s) == IF s # "" /\ IsSpace(CharAt(s, Len(s))) THEN rstrip(SubSeq(s, 1, Len(s) - 1)) ELSE s

strip(s) == rstrip(lstrip(s))

\* Python's `t in s` on strings.
Contains(s, t) == \E i \in 1..(Len(s) - Len(t) + 1) : SubSeq(s, i, i + Len(t) - 1) = t

\* int() of a digit string.
RECURSIVE IntOf(_)
IntOf(s) == IF s = "" THEN 0 ELSE 10 * IntOf(SubSeq(s, 1, Len(s) - 1)) + DigitValue[CharAt(s, Len(s))]

\* '%Y-%m-%d' and str(date): zero-padded fields.
Pad2(n) == IF n < 10 THEN "0" \o ToString(n) ELSE ToString(n)

----------------------------------------------------------------------------
(* Calendar: datetime.date and calendar.monthrange *)

MonthNames == <<"january", "february", "march", "april", "may", "june", "july",
                "august", "september", "october", "november", "december">>

IsLeap(y) == (y % 4 = 0) /\ ((y % 100 # 0) \/ (y % 400 = 0))

\* monthrange without the leap-year rule.
monthrange_NoLeap(y, m) == IF m = 2 THEN 28 ELSE IF m \in {4, 6, 9, 11} THEN 30 ELSE 31

monthrange(y, m) ==
    IF m = 2 THEN (IF IsLeap(y) THEN 29 ELSE 28)
    ELSE IF m \in {4, 6, 9, 11} THEN 30 ELSE 31

\* date(y, m, d); 0 stands for the ValueError of an impossible date.
MkDate(y, m, d) ==
    IF m \in 1..12 /\ d >= 1 /\ d <= monthrange(y, m) /\ y >= 1 /\ y <= 9999
    THEN y * 10000 + m * 100 + d
    ELSE 0

YearOf(dt) == dt \div 10000
MonthOf(dt) == (dt \div 100) % 100
DayOf(dt) == dt % 100

\* date.isoformat() / strftime('%Y-%m-%d')
IsoFormat(dt) == ToString(YearOf(dt)) \o "-" \o Pad2(MonthOf(dt)) \o "-" \o Pad2(DayOf(dt))

\* The month number %B reads (case-insensitive full name), 0 when none.
MonthNumber(w) ==
    LET lw == lower(w)
    IN IF \E m \in 1..12 : MonthNames[m] = lw
       THEN CHOOSE m \in 1..12 : MonthNames[m] = lw
       ELSE 0

\* The day number %d reads from a whole field: 1..31 in one or two digits, else 0.
DayNumber(w) ==
    IF AllDigits(w) /\ Len(w) <= 2
    THEN (LET d == IntOf(w) IN IF d \in 1..31 THEN d ELSE 0)
    ELSE 0

Abs(n) == IF n < 0 THEN -n ELSE n

----------------------------------------------------------------------------
(* Regular expressions, read over the maximal runs of a string.            *)
(* A token is [k, s]: k = "w" for a run of \w characters, "sp" for a run   *)
(* of whitespace, and the character itself for any other character.        *)

CharKind(c) == IF IsWordChar(c) THEN "w" ELSE IF IsSpace(c) THEN "sp" ELSE c

RECURSIVE LexFrom(_, _, _)
LexFrom(s, i, acc) ==
    IF i > Len(s) THEN acc
    ELSE LET c == CharAt(s, i)
             k == CharKind(c)
             n == Len(acc)
         IN IF n > 0 /\ k \in {"w", "sp"} /\ acc[n].k = k
            THEN LexFrom(s, i + 1, [acc EXCEPT ![n].s = @ \o c])
            ELSE LexFrom(s, i + 1, Append(acc, [k |-> k, s |-> c]))

Lex(s) == LexFrom(s, 1, <<>>)

\* Does the run tok belong to the regex atom class?
\*   alpha [a-zA-Z]+   d12 \d{1,2}   d2 \d{2}   d4 \d{4} (whole run)
\*   d4pre \d{4} with no anchor after it   w \w+   sp \s+   else a literal
TokIs(tok, class) ==
    CASE class = "alpha" -> tok.k = "w" /\ AllLetters(tok.s)
      [] class = "d12"   -> tok.k = "w" /\ AllDigits(tok.s) /\ Len(tok.s) \in 1..2
      [] class = "d2"    -> tok.k = "w" /\ AllDigits(tok.s) /\ Len(tok.s) = 2
      [] class = "d4"    -> tok.k = "w" /\ AllDigits(tok.s) /\ Len(tok.s) = 4
      [] class = "d4pre" -> tok.k = "w" /\ Len(tok.s) >= 4 /\ AllDigits(SubSeq(tok.s, 1, 4))
      [] class = "w"     -> tok.k = "w"
      [] OTHER           -> tok.k = class

Captured(tok, class) == IF class = "d4pre" THEN SubSeq(tok.s, 1, 4) ELSE tok.s

Req(c) == [c |-> c, opt |-> FALSE]
Opt(c) == [c |-> c, opt |-> TRUE]

\* The captures of pat matched from the first run (one per atom, "" for a
\* skipped optional atom), or << >> when there is no match.  full: the
\* pattern ends in $.
RECURSIVE MatchFrom(_, _, _, _, _, _)
MatchFrom(toks, j, pat, p, caps, full) ==
    IF p > Len(pat) THEN (IF full /\ j <= Len(toks) THEN <<>> ELSE caps)
    ELSE IF j <= Len(toks) /\ TokIs(toks[j], pat[p].c)
         THEN MatchFrom(toks, j + 1, pat, p + 1, Append(caps, Captured(toks[j], pat[p].c)), full)
         ELSE IF pat[p].opt
              THEN MatchFrom(toks, j, pat, p + 1, Append(caps, ""), full)
              ELSE <<>>

\* re.match(pat, s) on the runs toks of s.
re_match(pat, toks, full) == MatchFrom(toks, 1, pat, 1, <<>>, full)

\* ^([a-zA-Z]+)\s+(\d{1,2}),\s*(\d{4})$  (the optional day group absent)
PatMonthDayYear == <<Req("alpha"), Req("sp"), Req("d12"), Req(","), Opt("sp"), Req("d4")>>
\* ^([a-zA-Z]+)\s+(\d{1,2})\s*-\s*(\d{1,2}),\s*(\d{4})$
PatMonthDayDayYear == <<Req("alpha"), Req("sp"), Req("d12"), Opt("sp"), Req("-"), Opt("sp"),
                        Req("d12"), Req(","), Opt("sp"), Req("d4")>>
\* (\w+)-(\w+)\s+(\d{4})
PatMonthMonthYear == <<Req("w"), Req("-"), Req("w"), Req("sp"), Req("d4pre")>>
\* (\w+)\s+(\d{4})$
PatMonthYear == <<Req("w"), Req("sp"), Req("d4")>>
\* ^\d{4}-\d{2}-\d{2}$
PatIsoDate == <<Req("d4"), Req("-"), Req("d2"), Req("-"), Req("d2")>>
\* ^\d{4}-\d{2}-\d{2}\s+\d{2}:\d{2}:\d{2}$
PatIsoDateTime == <<Req("d4"), Req("-"), Req("d2"), Req("-"), Req("d2"), Req("sp"),
                    Req("d2"), Req(":"), Req("d2"), Req(":"), Req("d2")>>

\* re.search(r'(\d{4})', s): the first four consecutive digits, "" when none.
RECURSIVE SearchYearFrom(_, _)
SearchYearFrom(s, i) ==
    IF i + 3 > Len(s) THEN ""
    ELSE IF AllDigits(SubSeq(s, i, i + 3)) THEN SubSeq(s, i, i + 3)
    ELSE SearchYearFrom(s, i + 1)

re_search_year(s) == SearchYearFrom(s, 1)

RECURSIVE SkipSpaces(_, _)
SkipSpaces(s, i) == IF i <= Len(s) /\ IsSpace(CharAt(s, i)) THEN SkipSpaces(s, i + 1) ELSE i

\* Where a match of \s*,?\s*\d{4} starting at i ends (exclusive), 0 when none.
YearMatchEnd(s, i) ==
    LET a == SkipSpaces(s, i)
        b == IF a <= Len(s) /\ CharAt(s, a) = "," THEN a + 1 ELSE a
        c == SkipSpaces(s, b)
    IN IF c + 3 <= Len(s) /\ AllDigits(SubSeq(s, c, c + 3)) THEN c + 4 ELSE 0

\* re.sub(r'\s*,?\s*\d{4}', '', s)
RECURSIVE SubYearFrom(_, _)
SubYearFrom(s, i) ==
    IF i > Len(s) THEN ""
    ELSE IF YearMatchEnd(s, i) > 0 THEN SubYearFrom(s, YearMatchEnd(s, i))
    ELSE CharAt(s, i) \o SubYearFrom(s, i + 1)

re_sub_year(s) == SubYearFrom(s, 1)

\* re.split(r'\s*-\s*|\s+to\s+', s, flags=re.IGNORECASE): the parts.
RECURSIVE SplitFrom(_, _, _, _)
SplitFrom(toks, j, cur, parts) ==
    IF j > Len(toks) THEN Append(parts, cur)
    ELSE LET k == toks[j].k
             nk == IF j + 1 <= Len(toks) THEN toks[j + 1].k ELSE ""
             isTo == /\ k = "sp" /\ j + 2 <= Len(toks)
                     /\ toks[j + 1].k = "w" /\ lower(toks[j + 1].s) = "to"
                     /\ toks[j + 2].k = "sp"
             dashAt == IF k = "-" THEN j ELSE IF k = "sp" /\ nk = "-" THEN j + 1 ELSE 0
         IN IF dashAt > 0
            THEN SplitFrom(toks,
                           IF dashAt + 1 <= Len(toks) /\ toks[dashAt + 1].k = "sp"
                           THEN dashAt + 2 ELSE dashAt + 1,
                           "", Append(parts, cur))
            ELSE IF isTo THEN SplitFrom(toks, j + 3, "", Append(parts, cur))
            ELSE SplitFrom(toks, j + 1, cur \o toks[j].s, parts)

re_split_range(s) == SplitFrom(Lex(s), 1, "", <<>>)

----------------------------------------------------------------------------
(* datetime.strptime; each returns 0 for ValueError *)

\* strptime(f"{month} {day} {year}", "%B %d %Y").date(); %Y needs 4 digits.
strptime_BdY(month_str, day_str, year_val) ==
    LET m == MonthNumber(month_str)
        d == DayNumber(day_str)
    IN IF m = 0 \/ d = 0 \/ year_val < 1000 THEN 0 ELSE MkDate(year_val, m, d)

\* strptime(s, "%B %d").replace(year=y).date(); the day is checked in 1900.
strptime_Bd(s, y) ==
    LET c == re_match(<<Req("alpha"), Req("sp"), Req("d12")>>, Lex(s), TRUE)
        m == MonthNumber(c[1])
        d == DayNumber(c[3])
    IN IF c = <<>> THEN 0
       ELSE IF m = 0 \/ d = 0 THEN 0
       ELSE IF MkDate(1900, m, d) = 0 THEN 0
       ELSE MkDate(y, m, d)

\* strptime(s, "%B").replace(year=y): the 1st of that month, 0 for ValueError.
strptime_B(s, y) == IF MonthNumber(s) = 0 THEN 0 ELSE MkDate(y, MonthNumber(s), 1)

----------------------------------------------------------------------------
(* parse_date_range_smart *)

Triple(s, e, r) == [start |-> s, end |-> e, remark |-> r, exc |-> ""]
Failure(r) == Triple(PyNone, PyNone, r)
Raises(e) == [start |-> PyNone, end |-> PyNone, remark |-> PyNone, exc |-> e]

\* Can int(v) be taken (no ValueError / TypeError)?
IntOk(v) == v.t = "num" \/ (v.t = "str" /\ AllDigits(strip(v.s)))
IntVal(v) == IF v.t = "num" THEN v.n ELSE IntOf(strip(v.s))

\* str(date_str) of a value that is no datetime.
StrOf(v) == IF v.t = "str" THEN v.s ELSE ToString(v.n)

DiffersInString(year_val, fallback_year) ==
    "Year in date string (" \o ToString(year_val)
        \o ") differs significantly from Year column (" \o ToString(fallback_year) \o ")."

DiffersInRange(y1, y2, fallback_year) ==
    "Year in date string (" \o ToString(y1) \o "-" \o ToString(y2)
        \o ") differs significantly from Year column (" \o ToString(fallback_year) \o ")."

DiffersInExcel(y, year_to_use) ==
    "Year in Excel date (" \o ToString(y)
        \o ") differs significantly from Year column (" \o ToString(year_to_use) \o ")."

\* " ".join(remark_parts)
RECURSIVE JoinWith(_, _)
JoinWith(parts, sep) ==
    IF Len(parts) = 0 THEN ""
    ELSE IF Len(parts) = 1 THEN parts[1]
    ELSE parts[1] \o sep \o JoinWith(Tail(parts), sep)

\* The year check with the abs() forgotten.
YearDiffers_NoAbs(has_fallback, fallback_year, y) == has_fallback /\ y - fallback_year > 1

\* A year check that is skipped when the Year column is absent.
YearDiffers(has_fallback, fallback_year, y) == has_fallback /\ Abs(y - fallback_year) > 1

\* isinstance(date_str, datetime)
NativeDate(d, year_original_val_) ==
    IF year_original_val_ = PyInf THEN Raises("OverflowError")
    ELSE IF notna(year_original_val_) /\ ~IntOk(year_original_val_) THEN Raises("ValueError")
    ELSE LET year_to_use == IF isna(year_original_val_) THEN YearOf(d) ELSE IntVal(year_original_val_)
         IN IF notna(year_original_val_) /\ Abs(YearOf(d) - year_to_use) > 1
            THEN Failure(PyStr(DiffersInExcel(YearOf(d), year_to_use)))
            ELSE Triple(PyDate(d), PyDate(d), PyStr("Parsed from a native Excel date format."))

\* Pattern 1 & 4 with the end day dropped: the range collapses to its first day.
MonthDayYear_IgnoresEndDay(month_str, start_day, end_day, year_from_str, has_fallback, fallback_year) ==
    LET year_val == IntOf(year_from_str)
        start_date == strptime_BdY(month_str, start_day, year_val)
    IN IF start_date = 0 THEN Failure(PyNone)
       ELSE IF YearDiffers(has_fallback, fallback_year, year_val)
            THEN Failure(PyStr(DiffersInString(year_val, fallback_year)))
            ELSE Triple(PyDate(start_date), PyDate(start_date), PyStr("Parsed as a single day event."))

\* Pattern 1 & 4 combined: month, day, end day ("" when absent), year.
MonthDayYear(month_str, start_day, end_day, year_from_str, has_fallback, fallback_year) ==
    LET year_val == IntOf(year_from_str)
        start_date == strptime_BdY(month_str, start_day, year_val)
        end_date == IF end_day # ""
                    THEN (IF start_date = 0 THEN 0
                          ELSE MkDate(YearOf(start_date), MonthOf(start_date), IntOf(end_day)))
                    ELSE start_date
        remark == IF end_day # "" THEN "Parsed from 'Month Day-Day, Year' format."
                  ELSE "Parsed as a single day event."
    IN IF start_date = 0 \/ end_date = 0 THEN Failure(PyNone)
       ELSE IF YearDiffers(has_fallback, fallback_year, year_val)
            THEN Failure(PyStr(DiffersInString(year_val, fallback_year)))
            ELSE Triple(PyDate(start_date), PyDate(end_date), PyStr(remark))

\* Pattern 2 with the two captured months taken in the wrong order.
MonthMonthYear_Swapped(start_month_str, end_month_str, year_from_str, has_fallback, fallback_year) ==
    LET year_val == IntOf(year_from_str)
        start_date == strptime_BdY(end_month_str, "1", year_val)
        end_month_dt == strptime_BdY(start_month_str, "1", year_val)
        last_day == monthrange(YearOf(end_month_dt), MonthOf(end_month_dt))
    IN IF YearDiffers(has_fallback, fallback_year, year_val)
       THEN Failure(PyStr(DiffersInString(year_val, fallback_year)))
       ELSE IF start_date = 0 \/ end_month_dt = 0 THEN Failure(PyNone)
       ELSE Triple(PyDate(start_date),
                   PyDate(MkDate(YearOf(end_month_dt), MonthOf(end_month_dt), last_day)),
                   PyStr("Parsed from month-only range; assumed full month coverage."))

\* Pattern 2: "Month-Month Year"
MonthMonthYear(start_month_str, end_month_str, year_from_str, has_fallback, fallback_year) ==
    LET year_val == IntOf(year_from_str)
        start_date == strptime_BdY(start_month_str, "1", year_val)
        end_month_dt == strptime_BdY(end_month_str, "1", year_val)
        last_day == monthrange(YearOf(end_month_dt), MonthOf(end_month_dt))
    IN IF YearDiffers(has_fallback, fallback_year, year_val)
       THEN Failure(PyStr(DiffersInString(year_val, fallback_year)))
       ELSE IF start_date = 0 \/ end_month_dt = 0 THEN Failure(PyNone)
       ELSE Triple(PyDate(start_date),
                   PyDate(MkDate(YearOf(end_month_dt), MonthOf(end_month_dt), last_day)),
                   PyStr("Parsed from month-only range; assumed full month coverage."))

\* The guard of pattern 3 besides the regex.
NoRangeMarker(s) == ~Contains(s, "-") /\ ~Contains(lower(s), "to")

\* Pattern 3: "Month Year"
MonthYear(month_str, year_from_str, has_fallback, fallback_year) ==
    LET year_val == IntOf(year_from_str)
        start_date == strptime_BdY(month_str, "1", year_val)
        last_day == monthrange(YearOf(start_date), MonthOf(start_date))
    IN IF YearDiffers(has_fallback, fallback_year, year_val)
       THEN Failure(PyStr(DiffersInString(year_val, fallback_year)))
       ELSE IF start_date = 0 THEN Failure(PyNone)
       ELSE Triple(PyDate(start_date),
                   PyDate(MkDate(YearOf(start_date), MonthOf(start_date), last_day)),
                   PyStr("Parsed from month-only value; assumed full month."))

\* pd.to_datetime(date_str, errors='coerce') of text matching the ISO regex:
\* the date, 0 for NaT (impossible date or time, or outside Timestamp's range,
\* 1677-09-21 00:12:43 .. 2262-04-11 23:47:16).
to_datetime_iso(toks) ==
    LET m1 == re_match(PatIsoDate, toks, TRUE)
        m == IF m1 # <<>> THEN m1 ELSE re_match(PatIsoDateTime, toks, TRUE)
        d == MkDate(IntOf(m[1]), IntOf(m[3]), IntOf(m[5]))
        timeOk == Len(m) = 5 \/ (IntOf(m[7]) <= 23 /\ IntOf(m[9]) <= 59 /\ IntOf(m[11]) <= 59)
        inRange == /\ d >= MkDate(1677, 9, 22)
                   /\ d <= MkDate(2262, 4, 11)
                   /\ (d = MkDate(2262, 4, 11) /\ Len(m) > 5
                          => IntOf(m[7]) * 3600 + IntOf(m[9]) * 60 + IntOf(m[11]) <= 23 * 3600 + 47 * 60 + 16)
    IN IF d # 0 /\ timeOk /\ inRange THEN d ELSE 0

IsoMatches(toks) == re_match(PatIsoDate, toks, TRUE) # <<>> \/ re_match(PatIsoDateTime, toks, TRUE) # <<>>

\* The final fallback (fallback_year is present here).
Fallback(s, fallback_year) ==
    LET parts == re_split_range(s)
        start_str == parts[1]
        end_str == parts[Len(parts)]
        match_start_year == re_search_year(start_str)
        start_year == IF match_start_year # "" THEN IntOf(match_start_year) ELSE fallback_year
        start_str_clean == strip(re_sub_year(start_str))
        startBd == strptime_Bd(start_str_clean, start_year)
        startB == strptime_B(start_str_clean, start_year)
        start_date == IF startBd # 0 THEN startBd ELSE startB
        rp1 == IF startBd # 0 THEN <<>> ELSE <<"Start date assumed as 1st of month.">>
        match_end_year == re_search_year(end_str)
        end_year == IF match_end_year # "" THEN IntOf(match_end_year) ELSE start_year
        end_str_clean == strip(re_sub_year(end_str))
        endBd == strptime_Bd(end_str_clean, end_year)
        endB == strptime_B(end_str_clean, end_year)
        endOfMonth == IF endB = 0 THEN 0
                      ELSE MkDate(YearOf(endB), MonthOf(endB), monthrange(YearOf(endB), MonthOf(endB)))
        dayOnly == Len(parts) > 1 /\ AllDigits(end_str_clean)
        sameMonthEnd == IF strptime_Bd(start_str_clean, 1900) = 0 THEN 0
                        ELSE MkDate(YearOf(start_date), MonthOf(start_date), IntOf(end_str_clean))
        end_date == IF Len(parts) = 1 THEN start_date
                    ELSE IF dayOnly THEN sameMonthEnd
                    ELSE IF endBd # 0 THEN endBd ELSE endOfMonth
        rp2 == IF Len(parts) = 1
               THEN (IF rp1 # <<>> /\ start_str_clean = end_str_clean THEN <<>>
                     ELSE <<"Parsed as a single day event.">>)
               ELSE IF dayOnly THEN <<"Parsed as a date range within the same month.">>
               ELSE IF endBd # 0 THEN <<>>
               ELSE <<"End date assumed as last day of month.">>
        remark_parts == rp1 \o rp2
    IN IF start_date = 0 THEN Failure(PyStr("Invalid start month name"))
       ELSE IF end_date = 0
            THEN (IF dayOnly THEN Failure(PyStr("Ambiguous range (Month to Day)"))
                  ELSE Failure(PyStr("Invalid end month name")))
       ELSE IF Abs(YearOf(start_date) - fallback_year) > 1 \/ Abs(YearOf(end_date) - fallback_year) > 1
            THEN Failure(PyStr(DiffersInRange(YearOf(start_date), YearOf(end_date), fallback_year)))
       ELSE Triple(PyDate(start_date), PyDate(end_date),
                   PyStr(IF remark_parts = <<>> THEN "Parsed as a standard date range."
                         ELSE JoinWith(remark_parts, " ")))

\* The cascade over the stripped text.
ParseText(s, has_fallback, fallback_year) ==
    LET toks == Lex(s)
        m1 == re_match(PatMonthDayYear, toks, TRUE)
        m4 == re_match(PatMonthDayDayYear, toks, TRUE)
        m2 == re_match(PatMonthMonthYear, toks, FALSE)
        m3 == re_match(PatMonthYear, toks, TRUE)
        iso == to_datetime_iso(toks)
    IN IF m1 # <<>> THEN MonthDayYear(m1[1], m1[3], "", m1[6], has_fallback, fallback_year)
       ELSE IF m4 # <<>> THEN MonthDayYear(m4[1], m4[3], m4[7], m4[10], has_fallback, fallback_year)
       ELSE IF m2 # <<>> THEN MonthMonthYear(m2[1], m2[3], m2[5], has_fallback, fallback_year)
       ELSE IF m3 # <<>> /\ NoRangeMarker(s) THEN MonthYear(m3[1], m3[3], has_fallback, fallback_year)
       ELSE IF IsoMatches(toks) /\ iso # 0
            THEN (IF YearDiffers(has_fallback, fallback_year, YearOf(iso))
                  THEN Failure(PyStr(DiffersInString(YearOf(iso), fallback_year)))
                  ELSE Triple(PyDate(iso), PyDate(iso),
                              PyStr("Parsed from a standard timestamp format.")))
       ELSE IF ~has_fallback
            THEN Failure(PyStr("Missing Year column value needed for ambiguous date string."))
       ELSE Fallback(s, fallback_year)

parse_date_range_smart(date_str_, year_original_val_) ==
    IF isna(date_str_) THEN Failure(PyNone)
    ELSE IF date_str_.t = "date" THEN NativeDate(date_str_.n, year_original_val_)
    ELSE IF year_original_val_ = PyInf THEN Raises("OverflowError")
    ELSE IF notna(year_original_val_) /\ ~IntOk(year_original_val_)
         THEN Failure(PyStr("Invalid Year column value"))
    ELSE ParseText(strip(StrOf(date_str_)), notna(year_original_val_),
                   IF notna(year_original_val_) THEN IntVal(year_original_val_) ELSE 0)

----------------------------------------------------------------------------
(* Inputs of the parser: date cells and Year column values *)

YearSpan == 3

MonthTitles == <<"January", "February", "March", "April", "May", "June", "July",
                 "August", "September", "October", "November", "December">>

RangeYears == 2019..(2019 + YearSpan)
Years == {1900, 2000} \cup RangeYears
DaySet == {1, 15, 29, 30, 31}
FewMonths == {2, 7, 10, 12}
FewDays == {1, 30}

Name(m) == MonthTitles[m]
Num(n) == ToString(n)

TextMonthDayYear == {Name(m) \o " " \o Num(d) \o ", " \o Num(y) : m \in 1..12, d \in DaySet, y \in Years}
TextMonthDayDayYear ==
    {Name(m) \o " " \o Num(d) \o "-" \o Num(e) \o ", " \o Num(y) :
        m \in 1..12, d \in DaySet, e \in DaySet, y \in Years}
TextMonthMonthYear == {Name(m) \o "-" \o Name(n) \o " " \o Num(y) : m \in 1..12, n \in 1..12, y \in Years}
TextMonthYear == {Name(m) \o " " \o Num(y) : m \in 1..12, y \in Years}
TextIso == {Num(y) \o "-" \o Pad2(m) \o "-" \o Pad2(d) : m \in 1..12, d \in DaySet, y \in Years}
TextMonthDayDay == {Name(m) \o " " \o Num(d) \o "-" \o Num(e) : m \in 1..12, d \in DaySet, e \in DaySet}
TextDayToDay ==
    {Name(m) \o " " \o Num(d) \o sep \o Name(n) \o " " \o Num(e) :
        m \in FewMonths, n \in FewMonths, d \in DaySet, e \in FewDays, sep \in {" - ", " to "}}
TextRangeWithYears ==
    {Name(m) \o " " \o Num(d) \o ", " \o Num(y) \o " to " \o Name(n) \o " " \o Num(e) \o ", " \o Num(z) :
        m \in {7, 12}, n \in {1, 8}, d \in FewDays, e \in FewDays, y \in RangeYears, z \in RangeYears}
TextMonthToMonth == {Name(m) \o sep \o Name(n) : m \in FewMonths, n \in FewMonths, sep \in {"-", " to "}}
TextMonthOnly == {Name(m) : m \in 1..12} \cup {Name(m) \o " " \o Num(d) : m \in 1..12, d \in DaySet}
\* A 'Month D, YYYY' or 'Month D-D, YYYY' text with a word before or after it.
TextWithAffix ==
    {"on " \o t : t \in {Name(m) \o " " \o Num(d) \o ", " \o Num(y) : m \in FewMonths, d \in FewDays, y \in RangeYears}}
    \cup {t \o " approx" : t \in {Name(m) \o " " \o Num(d) \o "-" \o Num(d + 1) \o ", " \o Num(y) :
                                        m \in FewMonths, d \in FewDays, y \in RangeYears}}
\* 'Month D, YYYY-E': a day range whose start phrase carries its own year.
TextMonthDayYearDay ==
    {Name(m) \o " " \o Num(d) \o ", " \o Num(y) \o "-" \o Num(e) :
        m \in {2, 7}, d \in {15, 29}, e \in {17, 29}, y \in RangeYears}
\* 'Month - E': a month without a day, then a day.
TextMonthToDay == {Name(m) \o sep \o Num(e) : m \in FewMonths, e \in {17, 30}, sep \in {" - ", "-", " to "}}
\* Other spellings, and text that is no date.
TextOther ==
    {"unparseable gibberish", "", "on March 5, 2020", "March 5, 2020 approx", "  March 5, 2020  ",
     "march 5 - 7,2020", "MARCH 05, 2020", "Mar 5, 2020", "March 0, 2020", "March 32, 2020",
     "July-August 2021 onwards", "Typhoon-Season 2020", "15-17 2020", "5 2012", "Storm 2020",
     "Sept 2020", "2020-03-05 10:30:00", "2020-02-30", "20-03-05", "July 15-17 to 20", "July to 15",
     "2020", "June 2020 - July 2021", "week of July 4"}

DateTexts ==
    TextMonthDayYear \cup TextMonthDayDayYear \cup TextMonthMonthYear \cup TextMonthYear \cup TextIso
        \cup TextMonthDayDay \cup TextDayToDay \cup TextRangeWithYears \cup TextMonthToMonth
        \cup TextMonthOnly \cup TextWithAffix \cup TextMonthDayYearDay \cup TextMonthToDay \cup TextOther

NativeDates == {PyDate(MkDate(y, m, 15)) : y \in Years, m \in {2, 12}}

DateValues == {PyStr(t) : t \in DateTexts} \cup NativeDates \cup {PyNaN}

HintYears == {y + k : y \in Years, k \in {-2, 0, 1, 2}}
YearValues == {PyNaN} \cup {PyNum(y) : y \in HintYears}

----------------------------------------------------------------------------
(* sanitize_data at rest: the state of the pipeline while only the parser runs *)

SanitizeIdle ==
    /\ pc = "idle"
    /\ sheet = <<>>
    /\ psgc_file = <<>>
    /\ psgc_exists = FALSE
    /\ psgc_lookup_df = <<>>
    /\ has_lookup = FALSE
    /\ df_original_structure = <<>>
    /\ df_processed = <<>>
    /\ error_reasons = <<>>
    /\ clean_rows = <<>>
    /\ erroneous_rows = <<>>

----------------------------------------------------------------------------
(* The parser called on one (date_str, year_original_val) *)

NotCalled == Raises("not called")

InitParse ==
    /\ ppc = "call"
    /\ date_str \in DateValues
    /\ year_original_val \in YearValues
    /\ parse_result = NotCalled
    /\ SanitizeIdle
    /\ QuarantineIdle
    /\ ImportIdle
    /\ FarmerIdle
    /\ NumericIdle
    /\ ExportIdle
    /\ LookupIdle

CallParse ==
    /\ ppc = "call"
    /\ parse_result' = parse_date_range_smart(date_str, year_original_val)
    /\ ppc' = "returned"
    /\ UNCHANGED <<date_str, year_original_val>>
    /\ UNCHANGED <<sanVars, quarantineVars, importVars, lookupVars, exportVars, numericVars, farmerVars>>

NextParse == CallParse

SpecParse == InitParse /\ [][NextParse]_vars

----------------------------------------------------------------------------
(* sanitize_data: the frames *)

\* Sheet rows are records of raw cells, one per column the validation reads:
\*   year ('YEAR (DATE OF OCCURENCE)'), date ('ACTUAL DATE OF OCCURENCE'),
\*   province, municipality, grand_total, partial, totally, total.
\* Rows of df_processed additionally carry label (their index label) and pos,
\* the 0-based position of the sheet row they were derived from (pos is not
\* data of the program: it records provenance for the properties).

RowCells(r) == <<r.year, r.date, r.province, r.municipality, r.grand_total, r.partial, r.totally, r.total>>

\* dropna(how='all') keeps a row unless every cell is missing.
AllMissing(r) == \A i \in 1..Len(RowCells(r)) : isna(RowCells(r)[i])

\* str(v) of a raw cell.
PyStrOf(v) ==
    CASE v.t = "str" -> v.s
      [] v.t = "num" -> ToString(v.n)
      [] v.t = "date" -> IsoFormat(v.n) \o " 00:00:00"
      [] v.t = "nan" -> "nan"
      [] OTHER -> "None"

\* Is the text an integer literal pd.to_numeric reads?
IsIntegerText(x) == AllDigits(x) \/ (Len(x) > 1 /\ CharAt(x, 1) = "-" /\ AllDigits(SubSeq(x, 2, Len(x))))
IntegerOfText(x) == IF CharAt(x, 1) = "-" THEN 0 - IntOf(SubSeq(x, 2, Len(x))) ELSE IntOf(x)

\* pd.to_numeric(v, errors='coerce') of one cell.
to_numeric(v) ==
    CASE v.t = "num" -> v
      [] v.t = "str" /\ IsIntegerText(strip(v.s)) -> PyNum(IntegerOfText(strip(v.s)))
      [] OTHER -> PyNaN

RECURSIVE RemoveCommas(_)
RemoveCommas(x) ==
    IF x = "" THEN ""
    ELSE IF CharAt(x, 1) = "," THEN RemoveCommas(SubSeq(x, 2, Len(x)))
    ELSE CharAt(x, 1) \o RemoveCommas(SubSeq(x, 2, Len(x)))

\* clean_numeric_column on one cell: the number the column holds afterwards.
clean_numeric_column(v) ==
    LET series_str == PyStrOf(v)
        stripped == strip(RemoveCommas(series_str))
        series_cleaned == IF stripped = "-" THEN "0" ELSE stripped
        series_numeric == to_numeric(PyStr(series_cleaned))
    IN IF isna(series_numeric) THEN 0 ELSE series_numeric.n

\* Lines 247-249: astype(str).str.upper().str.strip(), then
\* replace({'^$': None, 'NAN': None}, regex=True): a cell that is empty or in
\* which the regex NAN is found anywhere becomes None.
UpperCell(v) ==
    LET u == strip(upper(PyStrOf(v)))
    IN IF u = "" \/ Contains(u, "NAN") THEN PyNone ELSE PyStr(u)

\* The lookup as loaded: names upper-cased and stripped, codes stripped.
NormalizeLookup(file) ==
    [i \in 1..Len(file) |->
        [province_name |-> strip(upper(file[i].province_name)),
         municipality_name |-> strip(upper(file[i].municipality_name)),
         psgc_code |-> strip(file[i].psgc_code)]]

\* drop_duplicates(subset=['province_name', 'municipality_name']): keep first.
RECURSIVE DropDuplicates(_, _)
DropDuplicates(rows, kept) ==
    IF rows = <<>> THEN kept
    ELSE IF \E j \in 1..Len(kept) :
                /\ kept[j].province_name = rows[1].province_name
                /\ kept[j].municipality_name = rows[1].municipality_name
         THEN DropDuplicates(Tail(rows), kept)
         ELSE DropDuplicates(Tail(rows), Append(kept, rows[1]))

\* The lookup frame after lines 207-217.
LoadedLookup(file) == DropDuplicates(NormalizeLookup(file), <<>>)

\* The lookup rows whose key equals the row's (province, municipality).
RECURSIVE MatchesOf(_, _, _)
MatchesOf(row, lookup, j) ==
    IF j > Len(lookup) THEN <<>>
    ELSE IF /\ row.province.t = "str" /\ row.province.s = lookup[j].province_name
            /\ row.municipality.t = "str" /\ row.municipality.s = lookup[j].municipality_name
         THEN <<lookup[j].psgc_code>> \o MatchesOf(row, lookup, j + 1)
         ELSE MatchesOf(row, lookup, j + 1)

WithCode(row, code) == [k \in (DOMAIN row) \cup {"psgc_code"} |-> IF k = "psgc_code" THEN code ELSE row[k]]

\* pd.merge(..., how='left'): one output row per matching lookup row, one with
\* a missing code when there is none.
RECURSIVE LeftJoin(_, _)
LeftJoin(rows, lookup) ==
    IF rows = <<>> THEN <<>>
    ELSE LET codes == MatchesOf(rows[1], lookup, 1)
         IN (IF codes = <<>> THEN <<WithCode(rows[1], PyNaN)>>
             ELSE [j \in 1..Len(codes) |-> WithCode(rows[1], PyStr(codes[j]))])
            \o LeftJoin(Tail(rows), lookup)

\* A merge on columns returns a frame with a fresh RangeIndex.
ResetIndex(rows) == [i \in 1..Len(rows) |-> [rows[i] EXCEPT !.label = i - 1]]

\* Lines 256-263.
Merged(rows, lookup) == ResetIndex(LeftJoin(rows, lookup))

\* read_excel + dropna(how='all'): the rows kept, each with its index label.
RECURSIVE LoadRows(_, _)
LoadRows(sh, i) ==
    IF i > Len(sh) THEN <<>>
    ELSE IF AllMissing(sh[i]) THEN LoadRows(sh, i + 1)
    ELSE <<[label |-> i - 1, pos |-> i - 1, raw |-> sh[i]]>> \o LoadRows(sh, i + 1)

\* Lines 232-233: df.copy() with source_row_number = df.index + 3.
OriginalStructure(loaded) ==
    [i \in 1..Len(loaded) |->
        [label |-> loaded[i].label, raw |-> loaded[i].raw, source_row_number |-> loaded[i].label + 3]]

\* df_original_structure.loc[index, ...]: is the label there (else KeyError)?
HasLabel(orig, label) == \E i \in 1..Len(orig) : orig[i].label = label
AtLabel(orig, label) == orig[CHOOSE i \in 1..Len(orig) : orig[i].label = label]

\* Lines 235-249: rename, to_numeric of the year, upper-casing.
Renamed(loaded) ==
    [i \in 1..Len(loaded) |->
        [label |-> loaded[i].label,
         pos |-> loaded[i].pos,
         year_original |-> to_numeric(loaded[i].raw.year),
         date_range_str |-> loaded[i].raw.date,
         province |-> UpperCell(loaded[i].raw.province),
         municipality |-> UpperCell(loaded[i].raw.municipality),
         losses_php_grand_total |-> loaded[i].raw.grand_total,
         area_partially_damaged_ha |-> loaded[i].raw.partial,
         area_totally_damaged_ha |-> loaded[i].raw.totally,
         area_total_affected_ha |-> loaded[i].raw.total]]

\* pd.to_datetime(temp, errors='coerce') of a parsed date or None: NaT for
\* None and for a date outside the range of a nanosecond Timestamp
\* (1677-09-22 .. 2262-04-11).
to_datetime(v) ==
    IF v.t = "date" /\ v.n >= MkDate(1677, 9, 22) /\ v.n <= MkDate(2262, 4, 11) THEN v ELSE PyNaN

\* The row with its year copied from the sheet's year column.
WithParse_YearCopied(r, parsed) ==
    [label |-> r.label,
     pos |-> r.pos,
     year_original |-> r.year_original,
     date_range_str |-> r.date_range_str,
     province |-> r.province,
     municipality |-> r.municipality,
     psgc_code |-> r.psgc_code,
     losses_php_grand_total |-> clean_numeric_column(r.losses_php_grand_total),
     area_partially_damaged_ha |-> clean_numeric_column(r.area_partially_damaged_ha),
     area_totally_damaged_ha |-> clean_numeric_column(r.area_totally_damaged_ha),
     area_total_affected_ha |-> clean_numeric_column(r.area_total_affected_ha),
     event_date_start |-> to_datetime(parsed.start),
     event_date_end |-> to_datetime(parsed.end),
     sanitation_remarks |-> parsed.remark,
     year |-> r.year_original,
     raised |-> parsed.exc # ""]

\* Lines 271-290 on one row, given what the parser returned for it: numeric
\* columns, the dates, the derived year.
WithParse(r, parsed) ==
    [label |-> r.label,
     pos |-> r.pos,
     year_original |-> r.year_original,
     date_range_str |-> r.date_range_str,
     province |-> r.province,
     municipality |-> r.municipality,
     psgc_code |-> r.psgc_code,
     losses_php_grand_total |-> clean_numeric_column(r.losses_php_grand_total),
     area_partially_damaged_ha |-> clean_numeric_column(r.area_partially_damaged_ha),
     area_totally_damaged_ha |-> clean_numeric_column(r.area_totally_damaged_ha),
     area_total_affected_ha |-> clean_numeric_column(r.area_total_affected_ha),
     event_date_start |-> to_datetime(parsed.start),
     event_date_end |-> to_datetime(parsed.end),
     sanitation_remarks |-> parsed.remark,
     year |-> IF notna(to_datetime(parsed.start)) THEN PyNum(YearOf(parsed.start.n)) ELSE PyNaN,
     raised |-> parsed.exc # ""]

\* Line 284: the parser applied to the row's date cell and numeric year.
ParsedRow(r) == WithParse(r, parse_date_range_smart(r.date_range_str, r.year_original))

\* Lines 253-269: the join when the lookup is loaded, else an empty psgc_code.
WithPsgc(rows, lookup_loaded, lookup) ==
    IF lookup_loaded THEN Merged(rows, lookup)
    ELSE [i \in 1..Len(rows) |-> WithCode(rows[i], PyNone)]

ParsedFrame(rows) == [i \in 1..Len(rows) |-> ParsedRow(rows[i])]

----------------------------------------------------------------------------
(* sanitize_data: validation of one row (lines 295-339) *)

MissingField(v) == isna(v) \/ strip(PyStrOf(v)) = ""

MissingProvinceReason == "Missing essential field (province)."
MissingMunicipalityReason == "Missing essential field (municipality)."
ZeroTotalReason == "Missing or zero Grand Total for PHP loss."

InvalidYearReason(original_year) ==
    "Original Year column is not a valid number: '" \o PyStrOf(original_year) \o "'"

\* Line 318: the remark is appended when it is one of the three kinds named.
RemarkIsQuoted(parse_remark) ==
    /\ parse_remark.t = "str" /\ parse_remark.s # ""
    /\ \/ Contains(parse_remark.s, "Invalid")
       \/ Contains(parse_remark.s, "Ambiguous")
       \/ Contains(parse_remark.s, "differs significantly")

UnparseableReason(original_date, parse_remark) ==
    "Unparseable date: '" \o PyStrOf(original_date) \o "'"
        \o (IF RemarkIsQuoted(parse_remark) THEN " (" \o parse_remark.s \o ")" ELSE "")

PsgcReason(province_val, municipality_val) ==
    "PSGC code not found for province/municipality: '"
        \o (IF notna(province_val) THEN PyStrOf(province_val) ELSE "MISSING") \o "' / '"
        \o (IF notna(municipality_val) THEN PyStrOf(municipality_val) ELSE "MISSING") \o "'."

DateRangeReason(start_date, end_date) ==
    "Date range invalid: Start date (" \o IsoFormat(start_date.n)
        \o ") is after end date (" \o IsoFormat(end_date.n) \o ")."

AreaReason(partial, totally, total) ==
    "Area inconsistency: Partial(" \o ToString(partial) \o ") + Totally(" \o ToString(totally)
        \o ") != Total(" \o ToString(total) \o ")."

\* Line 336; the areas are whole numbers here, the tolerance is 0.01.
AreaInconsistent(partial, totally, total) ==
    (partial > 0 \/ totally > 0) /\ total > 0 /\ ~(Abs((partial + totally) - total) * 100 < 1)

OptReason(cond, text) == IF cond THEN <<text>> ELSE <<>>

\* The reasons list of one loop iteration (no KeyError: the label is there
\* whenever a raw cell is read).
Reasons(row, orig, lookup_loaded) ==
    LET basic ==
            OptReason(MissingField(row.province), MissingProvinceReason)
            \o OptReason(MissingField(row.municipality), MissingMunicipalityReason)
            \o (IF isna(row.year_original)
                THEN <<InvalidYearReason(AtLabel(orig, row.label).raw.year)>> ELSE <<>>)
            \o (IF isna(row.event_date_start)
                THEN <<UnparseableReason(AtLabel(orig, row.label).raw.date, row.sanitation_remarks)>>
                ELSE <<>>)
            \o OptReason(row.losses_php_grand_total = 0, ZeroTotalReason)
        psgc ==
            OptReason(isna(row.psgc_code) /\ lookup_loaded
                          /\ ~Contains(JoinWith(basic, "; "), "Missing essential field"),
                      PsgcReason(row.province, row.municipality))
        dates ==
            IF notna(row.event_date_start) /\ notna(row.event_date_end)
                   /\ row.event_date_start.n > row.event_date_end.n
            THEN <<DateRangeReason(row.event_date_start, row.event_date_end)>> ELSE <<>>
        area ==
            OptReason(AreaInconsistent(row.area_partially_damaged_ha, row.area_totally_damaged_ha,
                                       row.area_total_affected_ha),
                      AreaReason(row.area_partially_damaged_ha, row.area_totally_damaged_ha,
                                 row.area_total_affected_ha))
    IN basic \o psgc \o dates \o area

\* Does the iteration read df_original_structure.loc[index, ...] at a label
\* the frame does not have (KeyError)?
RaisesKeyError(row, orig) ==
    (isna(row.year_original) \/ isna(row.event_date_start)) /\ ~HasLabel(orig, row.label)

----------------------------------------------------------------------------
(* sanitize_data: partition and output (lines 341-407) *)

\* strftime('%d-%m-%Y') in the place of '%Y-%m-%d'.
DateText_DayFirst(v) ==
    IF v.t = "date"
    THEN Pad2(DayOf(v.n)) \o "-" \o Pad2(MonthOf(v.n)) \o "-" \o ToString(YearOf(v.n))
    ELSE ""

\* Lines 366-369: strftime('%Y-%m-%d') of a date, '' for NaT.
DateText(v) == IF v.t = "date" THEN IsoFormat(v.n) ELSE ""

CleanOutput(row) ==
    [pos |-> row.pos,
     year |-> IF row.year.t = "num" THEN ToString(row.year.n) ELSE "0",
     event_date_start |-> DateText(row.event_date_start),
     event_date_end |-> DateText(row.event_date_end),
     province |-> row.province,
     municipality |-> row.municipality,
     psgc_code |-> IF isna(row.psgc_code) THEN "" ELSE row.psgc_code.s,
     area_partially_damaged_ha |-> row.area_partially_damaged_ha,
     area_totally_damaged_ha |-> row.area_totally_damaged_ha,
     area_total_affected_ha |-> row.area_total_affected_ha,
     losses_php_grand_total |-> row.losses_php_grand_total,
     sanitation_remarks |-> row.sanitation_remarks]

\* erroneous_rows.merge(df_original_structure[['source_row_number']],
\* left_index=True, right_index=True, how='left'), then the projection.
ErroneousOutput(row, reason, orig) ==
    [pos |-> row.pos,
     year |-> IF row.year.t = "num" THEN ToString(row.year.n) ELSE "",
     event_date_start |-> DateText(row.event_date_start),
     event_date_end |-> DateText(row.event_date_end),
     province |-> row.province,
     municipality |-> row.municipality,
     psgc_code |-> IF isna(row.psgc_code) THEN "" ELSE row.psgc_code.s,
     area_partially_damaged_ha |-> row.area_partially_damaged_ha,
     area_totally_damaged_ha |-> row.area_totally_damaged_ha,
     area_total_affected_ha |-> row.area_total_affected_ha,
     losses_php_grand_total |-> row.losses_php_grand_total,
     sanitation_remarks |-> row.sanitation_remarks,
     source_row_number |-> IF HasLabel(orig, row.label)
                           THEN PyNum(AtLabel(orig, row.label).source_row_number) ELSE PyNaN,
     error_reason |-> reason]

RECURSIVE SelectClean(_, _, _)
SelectClean(rows, reasons, i) ==
    IF i > Len(rows) THEN <<>>
    ELSE (IF reasons[i] = "" THEN <<CleanOutput(rows[i])>> ELSE <<>>)
         \o SelectClean(rows, reasons, i + 1)

RECURSIVE SelectErroneous(_, _, _, _)
SelectErroneous(rows, reasons, orig, i) ==
    IF i > Len(rows) THEN <<>>
    ELSE (IF reasons[i] # "" THEN <<ErroneousOutput(rows[i], reasons[i], orig)>> ELSE <<>>)
         \o SelectErroneous(rows, reasons, orig, i + 1)

----------------------------------------------------------------------------
(* Inputs of sanitize_data *)

MaxRows == 3

Row(y, d, pr, mu, gt, pa, to, tt) ==
    [year |-> y, date |-> d, province |-> pr, municipality |-> mu, grand_total |-> gt,
     partial |-> pa, totally |-> to, total |-> tt]

BlankRow == Row(PyNaN, PyNaN, PyNaN, PyNaN, PyNaN, PyNaN, PyNaN, PyNaN)

\* Rows for sheets of several rows: each with its own year and date text.
FewRows ==
    {BlankRow,
     Row(PyNum(2020), PyStr("March 5, 2020"), PyStr("Iloilo"), PyStr("Oton"), PyNum(1000), PyNum(40), PyNum(0), PyNum(40)),
     Row(PyNum(2021), PyStr("July-August 2021"), PyStr("Iloilo"), PyStr("Oton"), PyNum(0), PyNaN, PyNaN, PyNaN),
     Row(PyNum(2019), PyStr("unparseable gibberish"), PyStr("Iloilo"), PyStr("Oton"), PyNum(500), PyNaN, PyNaN, PyNaN),
     Row(PyStr("20x2"), PyStr("November 2012"), PyStr("Iloilo"), PyStr("Oton"), PyStr("1,700"), PyNaN, PyNaN, PyNaN),
     Row(PyNum(2022), PyStr("March 15-1, 2022"), PyNaN, PyStr("Oton"), PyNum(100), PyNum(40), PyNum(5), PyNum(40)),
     Row(PyNum(2020), PyStr("2020-03-05"), PyStr("Cebu"), PyStr("Carcar"), PyNum(300), PyNaN, PyNaN, PyNaN),
     Row(PyNum(2020), PyStr("Missing essential field"), PyStr("Cebu"), PyStr("Carcar"), PyNum(300), PyNaN, PyNaN, PyNaN),
     Row(PyNum(2262), PyStr("January-December 2262"), PyStr("Iloilo"), PyStr("Oton"), PyNum(900), PyNaN, PyNaN, PyNaN),
     Row(PyNum(2021), PyStr("December 30, 2020"), PyStr("Iloilo"), PyStr("Oton"), PyNum(800), PyNaN, PyNaN, PyNaN)}

RECURSIVE SeqsUpTo(_, _)
SeqsUpTo(S, n) ==
    IF n = 0 THEN {<<>>}
    ELSE LET shorter == SeqsUpTo(S, n - 1)
         IN shorter \cup {Append(q, x) : q \in {r \in shorter : Len(r) = n - 1}, x \in S}

\* Rows for sheets of one data row: every combination of the cells.
YearCells == {PyNum(2020), PyNaN, PyStr("20x0")}
DateCells == {PyStr("March 5, 2020"), PyStr("unparseable gibberish"), PyStr("March 15-1, 2020"),
              PyStr("March 5, 2030"), PyStr("October 2020"), PyNaN}
ProvinceCells == {PyStr("Iloilo"), PyNaN, PyStr("  "), PyStr("Pangasinan")}
MunicipalityCells == {PyStr("Oton"), PyNaN, PyStr("San Fernando")}
TotalCells == {PyNum(1000), PyNum(0), PyStr("-"), PyStr("n/a")}
AreaCells == {<<PyNaN, PyNaN, PyNaN>>, <<PyNum(40), PyNum(0), PyNum(40)>>, <<PyNum(40), PyNum(5), PyNum(40)>>,
              <<PyNum(40), PyNum(5), PyNum(0)>>, <<PyNum(0), PyStr("-"), PyNum(40)>>}

ManyRows ==
    {Row(y, d, pr, mu, gt, a[1], a[2], a[3]) :
        y \in YearCells, d \in DateCells, pr \in ProvinceCells, mu \in MunicipalityCells,
        gt \in TotalCells, a \in AreaCells}

\* The sheets: up to MaxRows rows of FewRows, or one row of ManyRows alone or
\* below a blank row; always at least one row that is not blank.
Sheets ==
    {sh \in SeqsUpTo(FewRows, MaxRows) : \E i \in 1..Len(sh) : ~AllMissing(sh[i])}
    \cup {<<r>> : r \in ManyRows} \cup {<<BlankRow, r>> : r \in ManyRows}

\* psgc_lookup.csv as read_csv returns it (each cell as str() gives it): two
\* rows share a key once upper-cased and stripped.
LookupFile ==
    <<[province_name |-> "Iloilo", municipality_name |-> "Oton", psgc_code |-> "63034"],
      [province_name |-> "ILOILO ", municipality_name |-> " oton", psgc_code |-> "999999"],
      [province_name |-> "Pangasinan", municipality_name |-> "San Fernando", psgc_code |-> "15500"]>>

----------------------------------------------------------------------------
(* sanitize_data as a state machine *)

ParserIdle ==
    /\ ppc = "idle"
    /\ date_str = PyNaN
    /\ year_original_val = PyNaN
    /\ parse_result = NotCalled

Init ==
    /\ ParserIdle
    /\ QuarantineIdle
    /\ ImportIdle
    /\ FarmerIdle
    /\ NumericIdle
    /\ ExportIdle
    /\ LookupIdle
    /\ pc = "start"
    /\ sheet \in Sheets
    /\ psgc_exists \in BOOLEAN
    /\ psgc_file = (IF psgc_exists THEN LookupFile ELSE <<>>)
    /\ psgc_lookup_df = <<>>
    /\ has_lookup = FALSE
    /\ df_original_structure = <<>>
    /\ df_processed = <<>>
    /\ error_reasons = <<>>
    /\ clean_rows = <<>>
    /\ erroneous_rows = <<>>

\* Lines 201-220.
LoadLookup ==
    /\ pc = "start"
    /\ has_lookup' = psgc_exists
    /\ psgc_lookup_df' = (IF psgc_exists THEN LoadedLookup(psgc_file) ELSE <<>>)
    /\ pc' = "lookup"
    /\ UNCHANGED <<sheet, psgc_file, psgc_exists, df_original_structure, df_processed,
                   error_reasons, clean_rows, erroneous_rows>>
    /\ UNCHANGED <<parseVars, quarantineVars, importVars, lookupVars, exportVars, numericVars, farmerVars>>

\* Lines 222-233.
ReadSheet ==
    /\ pc = "lookup"
    /\ df_processed' = LoadRows(sheet, 1)
    /\ df_original_structure' = OriginalStructure(LoadRows(sheet, 1))
    /\ pc' = "loaded"
    /\ UNCHANGED <<sheet, psgc_file, psgc_exists, psgc_lookup_df, has_lookup,
                   error_reasons, clean_rows, erroneous_rows>>
    /\ UNCHANGED <<parseVars, quarantineVars, importVars, lookupVars, exportVars, numericVars, farmerVars>>

\* Lines 235-290.
Process ==
    /\ pc = "loaded"
    /\ df_processed' = ParsedFrame(WithPsgc(Renamed(df_processed), has_lookup, psgc_lookup_df))
    /\ pc' = IF \E i \in 1..Len(df_processed') : df_processed'[i].raised
             THEN "crashed" ELSE "validating"
    /\ UNCHANGED <<sheet, psgc_file, psgc_exists, psgc_lookup_df, has_lookup,
                   df_original_structure, error_reasons, clean_rows, erroneous_rows>>
    /\ UNCHANGED <<parseVars, quarantineVars, importVars, lookupVars, exportVars, numericVars, farmerVars>>

\* One iteration of the loop of lines 295-339.
ValidateRow ==
    /\ pc = "validating"
    /\ Len(error_reasons) < Len(df_processed)
    /\ LET row == df_processed[Len(error_reasons) + 1]
       IN IF RaisesKeyError(row, df_original_structure)
          THEN /\ pc' = "crashed"
               /\ UNCHANGED error_reasons
          ELSE /\ error_reasons' =
                      Append(error_reasons, JoinWith(Reasons(row, df_original_structure, has_lookup), "; "))
               /\ UNCHANGED pc
    /\ UNCHANGED <<sheet, psgc_file, psgc_exists, psgc_lookup_df, has_lookup,
                   df_original_structure, df_processed, clean_rows, erroneous_rows>>
    /\ UNCHANGED <<parseVars, quarantineVars, importVars, lookupVars, exportVars, numericVars, farmerVars>>

\* Lines 341-407.
Partition ==
    /\ pc = "validating"
    /\ Len(error_reasons) = Len(df_processed)
    /\ clean_rows' = SelectClean(df_processed, error_reasons, 1)
    /\ erroneous_rows' = SelectErroneous(df_processed, error_reasons, df_original_structure, 1)
    /\ pc' = "done"
    /\ UNCHANGED <<sheet, psgc_file, psgc_exists, psgc_lookup_df, has_lookup,
                   df_original_structure, df_processed, error_reasons>>
    /\ UNCHANGED <<parseVars, quarantineVars, importVars, lookupVars, exportVars, numericVars, farmerVars>>

Next == LoadLookup \/ ReadSheet \/ Process \/ ValidateRow \/ Partition

Spec == Init /\ [][Next]_vars

----------------------------------------------------------------------------
(* Properties of parse_date_range_smart *)

Returned == ppc = "returned"
HasDates(r) == r.start.t = "date" /\ r.end.t = "date"
NoDates(r) == r.start = PyNone /\ r.end = PyNone /\ r.exc = ""
HintAbsentOrWithinOne(y) == isna(year_original_val) \/ Abs(year_original_val.n - y) <= 1

\* The calendar the claims speak of, written out independently of monthrange.
DaysInMonth == <<31, 28, 31, 30, 31, 30, 31, 31, 30, 31, 30, 31>>
LeapYears == {1896, 1904, 1996, 2000, 2004, 2016, 2020, 2024, 2028}
LastDayOf(m, y) == IF m = 2 /\ y \in LeapYears THEN 29 ELSE DaysInMonth[m]
DayOfYear(y, m, d) == PyDate(y * 10000 + m * 100 + d)

\* The texts of the input set that write a range backwards: the end day before
\* the start day, the end month before the start month, or the end phrase
\* earlier in the calendar than the start phrase.
InvertedRangeTexts ==
    {Name(m) \o " " \o Num(c[1]) \o "-" \o Num(c[2]) \o ", " \o Num(y) :
        m \in 1..12, y \in Years, c \in {x \in DaySet \X DaySet : x[2] < x[1]}}
    \cup {Name(c[1]) \o "-" \o Name(c[2]) \o " " \o Num(y) :
            c \in {x \in (1..12) \X (1..12) : x[2] < x[1]}, y \in Years}
    \cup {Name(m) \o " " \o Num(c[1]) \o "-" \o Num(c[2]) :
            m \in 1..12, c \in {x \in DaySet \X DaySet : x[2] < x[1]}}
    \cup {Name(c[1]) \o " " \o Num(c[2]) \o sep \o Name(c[3]) \o " " \o Num(c[4]) :
            c \in {x \in FewMonths \X DaySet \X FewMonths \X FewDays :
                     x[3] * 100 + x[4] < x[1] * 100 + x[2]},
            sep \in {" - ", " to "}}
    \cup {Name(c[1]) \o " " \o Num(c[2]) \o ", " \o Num(c[3]) \o " to "
             \o Name(c[4]) \o " " \o Num(c[5]) \o ", " \o Num(c[6]) :
            c \in {x \in {7, 12} \X FewDays \X RangeYears \X {1, 8} \X FewDays \X RangeYears :
                     x[6] * 10000 + x[4] * 100 + x[5] < x[3] * 10000 + x[1] * 100 + x[2]}}
    \cup {Name(c[1]) \o sep \o Name(c[2]) :
            c \in {x \in FewMonths \X FewMonths : x[2] < x[1]}, sep \in {"-", " to "}}
    \cup {Name(m) \o " " \o Num(c[1]) \o ", " \o Num(y) \o "-" \o Num(c[2]) :
            m \in {2, 7}, y \in RangeYears, c \in {x \in {15, 29} \X {17, 29} : x[2] < x[1]}}

CarriedYear(v) ==
    IF v.t = "date" THEN YearOf(v.n)
    ELSE IF v.t = "str" /\ re_search_year(v.s) # "" THEN IntOf(re_search_year(v.s))
    ELSE 0

IsDifferReason(r) == r.t = "str" /\ Contains(r.s, "differ")

ParsedUnderOwnYear == parse_date_range_smart(date_str, PyNum(CarriedYear(date_str)))

MonthYearCases == {<<Name(m) \o " " \o Num(y), m, y>> : m \in 1..12, y \in Years}

\* C5: 'M Y' with the Year column absent or within 1 of Y parses to the 1st
\* and the last calendar day of month M in year Y, for each of the twelve months.
C5_WholeMonth ==
    Returned =>
        \A c \in MonthYearCases :
            (date_str = PyStr(c[1]) /\ HintAbsentOrWithinOne(c[3])) =>
                /\ parse_result.start = DayOfYear(c[3], c[2], 1)
                /\ parse_result.end = DayOfYear(c[3], c[2], LastDayOf(c[2], c[3]))

\* The 'M1-M2 Y' texts with their months and year.
MonthMonthYearCases ==
    {<<Name(m) \o "-" \o Name(n) \o " " \o Num(y), m, n, y>> : m \in 1..12, n \in 1..12, y \in Years}

\* C6: 'M1-M2 Y' with the Year column absent or within 1 of Y parses to the 1st
\* of M1 and the last calendar day of M2 in year Y (February: the 29th exactly
\* in leap years).
C6_MonthRange ==
    Returned =>
        \A c \in MonthMonthYearCases :
            (date_str = PyStr(c[1]) /\ HintAbsentOrWithinOne(c[4])) =>
                /\ parse_result.start = DayOfYear(c[4], c[2], 1)
                /\ parse_result.end = DayOfYear(c[4], c[3], LastDayOf(c[3], c[4]))

C6_Witness ==
    /\ Returned
    /\ date_str = PyStr("January-February 2020")
    /\ year_original_val = PyNum(2021)
    /\ parse_result.end = PyDate(20200229)

\* The 'Month D, YYYY' and 'Month D1-D2, YYYY' texts whose days exist in that
\* month, with their month, days and year.
SingleDayCases ==
    {<<Name(m) \o " " \o Num(c[1]) \o ", " \o Num(c[2]), m, c[1], c[2]>> :
        m \in 1..12, c \in DaySet \X Years}
DayRangeCases ==
    {<<Name(c[1]) \o " " \o Num(c[2]) \o "-" \o Num(c[3]) \o ", " \o Num(c[4]), c[1], c[2], c[3], c[4]>> :
        c \in (1..12) \X DaySet \X DaySet \X Years}

SingleDayRemark == PyStr("Parsed as a single day event.")
DayRangeRemark == PyStr("Parsed from 'Month Day-Day, Year' format.")

\* Is the stripped text matched by the first step of the cascade?
MatchedByFirstStep(v) ==
    /\ v.t = "str"
    /\ \/ re_match(PatMonthDayYear, Lex(strip(v.s)), TRUE) # <<>>
       \/ re_match(PatMonthDayDayYear, Lex(strip(v.s)), TRUE) # <<>>

\* C7: 'Month D, YYYY' parses to start = end = that day, 'Month D1-D2, YYYY' to
\* day D1 and day D2 of that month and year, with two different remarks; a text
\* with a word before or after the pattern is not matched by this step.
C7_DayAndDayRange ==
    Returned =>
        /\ \A c \in SingleDayCases :
              (date_str = PyStr(c[1]) /\ c[3] <= LastDayOf(c[2], c[4]) /\ HintAbsentOrWithinOne(c[4])) =>
                  /\ parse_result.start = DayOfYear(c[4], c[2], c[3])
                  /\ parse_result.end = DayOfYear(c[4], c[2], c[3])
                  /\ parse_result.remark = SingleDayRemark
        /\ \A c \in DayRangeCases :
              (date_str = PyStr(c[1]) /\ c[3] <= LastDayOf(c[2], c[5]) /\ c[4] <= LastDayOf(c[2], c[5])
                  /\ HintAbsentOrWithinOne(c[5])) =>
                  /\ parse_result.start = DayOfYear(c[5], c[2], c[3])
                  /\ parse_result.end = DayOfYear(c[5], c[2], c[4])
                  /\ parse_result.remark = DayRangeRemark
                  /\ parse_result.remark # SingleDayRemark
        /\ (date_str.t = "str" /\ date_str.s \in TextWithAffix) =>
              /\ ~MatchedByFirstStep(date_str)
              /\ parse_result.remark \notin {SingleDayRemark, DayRangeRemark}

C7_Witness ==
    /\ Returned
    /\ date_str = PyStr("February 1-29, 2020")
    /\ parse_result.start = PyDate(20200201)
    /\ parse_result.end = PyDate(20200229)
    /\ parse_result.remark = DayRangeRemark

----------------------------------------------------------------------------
(* Properties of sanitize_data *)

Ended == pc \in {"done", "crashed"}

\* The non-blank rows of the sheet, as loaded.
Loaded == LoadRows(sheet, 1)

CountIn(rows, p) == Cardinality({k \in 1..Len(rows) : rows[k].pos = p})

\* The validated row derived from the sheet row at position p.
ProcessedFrom(p) == df_processed[CHOOSE k \in 1..Len(df_processed) : df_processed[k].pos = p]

\* C1: once sanitize_data has ended, every non-blank row of the sheet is in
\* exactly one of the two outputs (clean + erroneous = rows loaded, none
\* dropped, none duplicated), and a validated row is in the clean output iff
\* its error_reason is empty.
C1_EveryRowInExactlyOneOutput ==
    Ended =>
        /\ Len(clean_rows) + Len(erroneous_rows) = Len(Loaded)
        /\ \A i \in 1..Len(Loaded) :
               CountIn(clean_rows, Loaded[i].pos) + CountIn(erroneous_rows, Loaded[i].pos) = 1
        /\ \A k \in 1..Len(error_reasons) :
               /\ (error_reasons[k] = "") <=> (CountIn(clean_rows, df_processed[k].pos) = 1)
               /\ (error_reasons[k] # "") <=> (CountIn(erroneous_rows, df_processed[k].pos) = 1)

\* C2: when sanitize_data has finished, every row of the erroneous output
\* carries the sheet position (row index + 3) of the raw row it was derived
\* from, and the year and date text its error_reason quotes are that raw
\* row's.
C2_SourceRowNumberIsOwnRow ==
    pc = "done" =>
        \A k \in 1..Len(erroneous_rows) :
            LET e == erroneous_rows[k]
                raw == sheet[e.pos + 1]
                row == ProcessedFrom(e.pos)
            IN /\ e.source_row_number = PyNum(e.pos + 3)
               /\ isna(row.year_original) => Contains(e.error_reason, InvalidYearReason(raw.year))
               /\ isna(row.event_date_start)
                      => Contains(e.error_reason, "Unparseable date: '" \o PyStrOf(raw.date) \o "'")

\* The seven rules, on the validated row.
ViolatedRules(row) ==
    (IF MissingField(row.province) THEN {"Missing essential field (province)."} ELSE {})
    \cup (IF MissingField(row.municipality) THEN {"Missing essential field (municipality)."} ELSE {})
    \cup (IF isna(row.year_original) THEN {"Original Year column is not a valid number"} ELSE {})
    \cup (IF isna(row.event_date_start) THEN {"Unparseable date"} ELSE {})
    \cup (IF row.losses_php_grand_total = 0 THEN {"Missing or zero Grand Total"} ELSE {})
    \cup (IF notna(row.event_date_start) /\ notna(row.event_date_end)
              /\ row.event_date_start.n > row.event_date_end.n
          THEN {"Date range invalid"} ELSE {})
    \cup (IF AreaInconsistent(row.area_partially_damaged_ha, row.area_totally_damaged_ha,
                              row.area_total_affected_ha)
          THEN {"Area inconsistency"} ELSE {})

RuleEntries ==
    {"Missing essential field (province).", "Missing essential field (municipality).",
     "Original Year column is not a valid number", "Unparseable date",
     "Missing or zero Grand Total", "Date range invalid", "Area inconsistency"}

\* The entries of a reason text for the seven rules, and how many entries the
\* text has in all (entries are joined by "; ").
EntriesOf(reason) == {e \in RuleEntries : Contains(reason, e)}
SeparatorCount(reason) == Cardinality({i \in 1..(Len(reason) - 1) : SubSeq(reason, i, i + 1) = "; "})
EntryCount(reason) == IF reason = "" THEN 0 ELSE SeparatorCount(reason) + 1
OtherEntries(reason) == IF Contains(reason, "PSGC code not found") THEN 1 ELSE 0

CollectsAll(row, reason) ==
    /\ EntriesOf(reason) = ViolatedRules(row)
    /\ EntryCount(reason) = Cardinality(ViolatedRules(row)) + OtherEntries(reason)

\* C8: once sanitize_data has ended, every loaded row has an error_reason
\* with one entry for each of the seven rules it violates, joined by "; ",
\* and none for a rule it does not violate.
C8_EveryViolatedRuleReported ==
    Ended =>
        \A k \in 1..Len(df_processed) :
            /\ k <= Len(error_reasons)
            /\ CollectsAll(df_processed[k], error_reasons[k])

\* A raw cell that is absent or holds only blanks.
CellEmpty(v) == isna(v) \/ strip(PyStrOf(v)) = ""

\* C9: a validated row has the missing-province entry iff its province cell
\* in the sheet is empty or absent, and the missing-municipality entry iff
\* its municipality cell is.
C9_MissingPlaceIffCellEmpty ==
    \A k \in 1..Len(error_reasons) :
        LET raw == sheet[df_processed[k].pos + 1]
        IN /\ Contains(error_reasons[k], MissingProvinceReason) <=> CellEmpty(raw.province)
           /\ Contains(error_reasons[k], MissingMunicipalityReason) <=> CellEmpty(raw.municipality)

\* C10: when sanitize_data has finished, every row whose date was not parsed
\* is in the erroneous output with an 'Unparseable date' entry that quotes the
\* row's raw date text and, when the parser returned a remark, the remark.
C10_UnparseableDateReported ==
    pc = "done" =>
        \A k \in 1..Len(df_processed) :
            LET row == df_processed[k]
                raw == sheet[row.pos + 1]
            IN isna(row.event_date_start) =>
                   \E j \in 1..Len(erroneous_rows) :
                       /\ erroneous_rows[j].pos = row.pos
                       /\ Contains(erroneous_rows[j].error_reason,
                                   "Unparseable date: '" \o PyStrOf(raw.date) \o "'")
                       /\ row.sanitation_remarks.t = "str"
                              => Contains(erroneous_rows[j].error_reason, row.sanitation_remarks.s)

\* The reasons the validator has given the k-th row: none when it raised
\* before reaching the row or while validating it.
ReceivedBy(k) == IF k <= Len(error_reasons) THEN error_reasons[k] ELSE ""

\* The grand-total cells that hold no amount: a reported 0, a blank, a lone
\* '-', a cell that is not a number.
ZeroLikeCells == {PyNum(0), PyNaN, PyStr("-"), PyStr("n/a")}

\* C11: once sanitize_data has ended, every loaded row has the
\* zero-grand-total entry iff its normalized losses_php_grand_total is 0,
\* which it is for a reported 0, a blank, a lone '-' and an unparseable cell;
\* the row 'March 5, 2020' / 2020 / 0 is in the erroneous output with that
\* entry and without a date-parse entry.
C11_ZeroTotalIffNormalizedZero ==
    Ended =>
        \A k \in 1..Len(df_processed) :
            LET row == df_processed[k]
                raw == sheet[row.pos + 1]
            IN /\ raw.grand_total \in ZeroLikeCells => row.losses_php_grand_total = 0
               /\ Contains(ReceivedBy(k), ZeroTotalReason) <=> (row.losses_php_grand_total = 0)
               /\ (raw.date = PyStr("March 5, 2020") /\ raw.year = PyNum(2020) /\ raw.grand_total = PyNum(0))
                      => \E j \in 1..Len(erroneous_rows) :
                             /\ erroneous_rows[j].pos = row.pos
                             /\ Contains(erroneous_rows[j].error_reason, ZeroTotalReason)
                             /\ ~Contains(erroneous_rows[j].error_reason, "Unparseable date")

\* C12: when sanitize_data has finished, every row has the PSGC-not-found
\* entry iff a lookup table was loaded, the row's psgc_code is absent after
\* the join and neither its province nor its municipality is flagged
\* missing, whatever its year and date cells hold.
C12_PsgcNotFoundIffNoCode ==
    pc = "done" =>
        \A k \in 1..Len(df_processed) :
            Contains(error_reasons[k], "PSGC code not found")
                <=> /\ has_lookup
                    /\ isna(df_processed[k].psgc_code)
                    /\ ~MissingField(df_processed[k].province)
                    /\ ~MissingField(df_processed[k].municipality)

\* C13: once sanitize_data has ended, every loaded row has the
\* area-inconsistency entry iff (partial > 0 or totally > 0) and total > 0 and
\* |partial + totally - total| >= 0.01, and the entry reports the three
\* values; so 40/0/40 has none, 40/5/40 has one, and a row with total = 0 or
\* with partial = totally = 0 has none.
C13_AreaInconsistencyIffOutOfTolerance ==
    Ended =>
        \A k \in 1..Len(df_processed) :
            LET partial == df_processed[k].area_partially_damaged_ha
                totally == df_processed[k].area_totally_damaged_ha
                total == df_processed[k].area_total_affected_ha
            IN /\ Contains(ReceivedBy(k), "inconsistency")
                      <=> /\ partial > 0 \/ totally > 0
                          /\ total > 0
                          /\ Abs(partial + totally - total) * 100 >= 1
               /\ Contains(ReceivedBy(k), "inconsistency")
                      => Contains(ReceivedBy(k),
                                  "Partial(" \o ToString(partial) \o ") + Totally(" \o ToString(totally)
                                      \o ") != Total(" \o ToString(total) \o ")")

\* C14: once sanitize_data has ended, every loaded row whose start date is
\* after its end date is in the erroneous output with a 'Date range invalid'
\* entry, and every row of the clean output has both event dates, with
\* event_date_start <= event_date_end.
C14_CleanRowsHaveOrderedDates ==
    Ended =>
        /\ \A k \in 1..Len(df_processed) :
               LET row == df_processed[k]
               IN (/\ notna(row.event_date_start) /\ notna(row.event_date_end)
                   /\ row.event_date_start.n > row.event_date_end.n)
                      => \E j \in 1..Len(erroneous_rows) :
                             /\ erroneous_rows[j].pos = row.pos
                             /\ Contains(erroneous_rows[j].error_reason, "Date range invalid")
        /\ \A j \in 1..Len(clean_rows) :
               LET row == ProcessedFrom(clean_rows[j].pos)
               IN /\ clean_rows[j].event_date_start # ""
                  /\ clean_rows[j].event_date_end # ""
                  /\ notna(row.event_date_start) /\ notna(row.event_date_end)
                  /\ row.event_date_start.n <= row.event_date_end.n

\* C15: in every row of the clean output the year column is the calendar
\* year of event_date_start, and it differs from the row's year_original by
\* at most 1.
C15_CleanYearIsStartYear ==
    \A j \in 1..Len(clean_rows) :
        LET row == ProcessedFrom(clean_rows[j].pos)
        IN /\ clean_rows[j].year = SubSeq(clean_rows[j].event_date_start, 1, 4)
           /\ row.year_original.t = "num"
           /\ Abs(IntOf(clean_rows[j].year) - row.year_original.n) <= 1

\* A finished run with a clean row whose year is not the reported one.
C15_Witness ==
    /\ pc = "done"
    /\ \E j \in 1..Len(clean_rows) :
           /\ clean_rows[j].year = "2020"
           /\ clean_rows[j].event_date_start = "2020-12-30"
           /\ ProcessedFrom(clean_rows[j].pos).year_original = PyNum(2021)

----------------------------------------------------------------------------
(* process_error_rows.py: the resubmission step.  Each *.csv of            *)
(* ./error_input/ goes through process_error_file; a file that returns     *)
(* True is moved to ./error_input/processed/.                              *)

ESSENTIAL_COLUMNS_RAW ==
    {"YEAR (DATE OF OCCURENCE)", "PROVINCE AFFECTED", "MUNICIPALITY AFFECTED", "COMMODITY",
     "HYDROMETEOROLOGICAL EVENTS / GENERAL DISASTER EVENTS", "NAME OF DISASTER",
     "Partially Damaged (AREA AFFECTED (HA.) / MORTALITY HEADS / NO. OF UNITS AFFECTED)",
     "Totally Damaged (AREA AFFECTED (HA.) / MORTALITY HEADS / NO. OF UNITS AFFECTED)",
     "TOTAL (AREA AFFECTED (HA.) / MORTALITY HEADS / NO. OF UNITS AFFECTED)",
     "NUMBER OF FARMERS AFFECTED", "Total Value (Based on Cost of Production / Inputs)",
     "Total Value - Based on Farm Gate Price ", "GRAND TOTAL", "source_row_number",
     "error_reason"}

\* The columns sanitize_data writes (sanitizer_test.py lines 379-392): the
\* clean projection, and for the erroneous file the two report columns.
clean_final_columns ==
    {"year", "event_date_start", "event_date_end", "province", "municipality", "psgc_code",
     "commodity", "disaster_type_raw", "disaster_category", "disaster_name",
     "area_partially_damaged_ha", "area_totally_damaged_ha", "area_total_affected_ha",
     "farmers_affected", "volume_loss_mt", "losses_php_production_cost",
     "losses_php_farm_gate", "losses_php_grand_total", "sanitation_remarks"}

error_final_columns == clean_final_columns \cup {"source_row_number", "error_reason"}

MaxErrorFiles == 3
MaxErrorRuns == 2

\* A CSV file: its header, its number of data rows, and what the file system
\* and the Delta writer do with it (read_csv succeeds, write_deltalake
\* succeeds, shutil.move succeeds).
CsvFile(columns, rows, readable, write_ok, move_ok) ==
    [columns |-> columns, rows |-> rows, readable |-> readable, write_ok |-> write_ok,
     move_ok |-> move_ok]

RawErrorColumns == ESSENTIAL_COLUMNS_RAW \cup {"ACTUAL DATE OF OCCURENCE"}

ErrorFileKinds ==
    {CsvFile(RawErrorColumns, 2, TRUE, TRUE, TRUE),
     CsvFile(RawErrorColumns, 0, TRUE, TRUE, TRUE),
     CsvFile(RawErrorColumns \ {"GRAND TOTAL"}, 2, TRUE, TRUE, TRUE),
     CsvFile(RawErrorColumns \ {"GRAND TOTAL"}, 0, TRUE, TRUE, TRUE),
     CsvFile(error_final_columns, 2, TRUE, TRUE, TRUE),
     CsvFile({}, 0, FALSE, TRUE, TRUE),
     CsvFile(RawErrorColumns, 2, TRUE, FALSE, TRUE),
     CsvFile(RawErrorColumns, 2, TRUE, TRUE, FALSE)}

\* The files of a directory: file k of the listing is named k.
Named(kinds) == [k \in DOMAIN kinds |-> [name |-> k] @@ kinds[k]]
Inboxes(kinds, n) == {Named(q) : q \in SeqsUpTo(kinds, n)}

RowsOf(f) == [k \in 1..f.rows |-> [file |-> f.name, row |-> k]]
EarlierRows == <<[file |-> 0, row |-> 1]>>
Without(files, name) == SelectSeq(files, LAMBDA f : f.name # name)
Names(files) == {files[k].name : k \in DOMAIN files}

WrittenBySanitizeData(f) == f.columns = error_final_columns

\* The table after rmtree and write_deltalake(mode='overwrite') at lines 193-200.
QuarantineWrite(f, table) == RowsOf(f)

\* Lines 83-208: the value returned ("True", "False", or "raised" when
\* write_deltalake raises) and the quarantine table left behind.
process_error_file(f, table, exists) ==
    IF ~f.readable THEN [result |-> "False", table |-> table, exists |-> exists]
    ELSE IF f.rows = 0 THEN [result |-> "True", table |-> table, exists |-> exists]
    ELSE IF ~(ESSENTIAL_COLUMNS_RAW \subseteq f.columns)
         THEN [result |-> "False", table |-> table, exists |-> exists]
    ELSE IF ~f.write_ok THEN [result |-> "raised", table |-> <<>>, exists |-> FALSE]
    ELSE [result |-> "True", table |-> QuarantineWrite(f, table), exists |-> TRUE]

InitQuarantine ==
    /\ ParserIdle
    /\ SanitizeIdle
    /\ ImportIdle
    /\ FarmerIdle
    /\ NumericIdle
    /\ ExportIdle
    /\ LookupIdle
    /\ epc = "start"
    /\ error_input \in Inboxes(ErrorFileKinds, MaxErrorFiles)
    /\ processed_error = <<>>
    /\ quarantine_exists \in BOOLEAN
    /\ quarantine = (IF quarantine_exists THEN EarlierRows ELSE <<>>)
    /\ error_files = <<>>
    /\ error_no = 0
    /\ error_processed_count = 0
    /\ error_failed_count = 0
    /\ error_runs = 1

\* Lines 211-223.
ListErrorFiles ==
    /\ epc = "start"
    /\ error_files' = error_input
    /\ error_no' = 1
    /\ error_processed_count' = 0
    /\ error_failed_count' = 0
    /\ epc' = (IF error_input = <<>> THEN "done" ELSE "loop")
    /\ UNCHANGED <<error_input, processed_error, quarantine, quarantine_exists, error_runs>>
    /\ UNCHANGED <<parseVars, sanVars, importVars, lookupVars, exportVars, numericVars, farmerVars>>

\* Lines 225-239: one iteration of the main loop.
ProcessErrorFile ==
    /\ epc = "loop"
    /\ error_no <= Len(error_files)
    /\ LET f == error_files[error_no]
           out == process_error_file(f, quarantine, quarantine_exists)
           moved == out.result = "True" /\ f.move_ok
       IN /\ quarantine' = out.table
          /\ quarantine_exists' = out.exists
          /\ epc' = (IF out.result = "raised" THEN "aborted" ELSE "loop")
          /\ error_input' = (IF moved THEN Without(error_input, f.name) ELSE error_input)
          /\ processed_error' = (IF moved THEN Append(processed_error, f)
                                 ELSE processed_error)
          /\ error_processed_count' = error_processed_count + (IF moved THEN 1 ELSE 0)
          /\ error_failed_count' =
                 error_failed_count + (IF out.result # "raised" /\ ~moved THEN 1 ELSE 0)
    /\ error_no' = error_no + 1
    /\ UNCHANGED <<error_files, error_runs>>
    /\ UNCHANGED <<parseVars, sanVars, importVars, lookupVars, exportVars, numericVars, farmerVars>>

\* Lines 241-245.
EndErrorLoop ==
    /\ epc = "loop"
    /\ error_no > Len(error_files)
    /\ epc' = "done"
    /\ UNCHANGED <<error_input, processed_error, quarantine, quarantine_exists, error_files,
                   error_no, error_processed_count, error_failed_count, error_runs>>
    /\ UNCHANGED <<parseVars, sanVars, importVars, lookupVars, exportVars, numericVars, farmerVars>>

\* The script is started again on what is left in ./error_input/.
RunErrorsAgain ==
    /\ epc \in {"done", "aborted"}
    /\ error_runs < MaxErrorRuns
    /\ epc' = "start"
    /\ error_runs' = error_runs + 1
    /\ UNCHANGED <<error_input, processed_error, quarantine, quarantine_exists, error_files,
                   error_no, error_processed_count, error_failed_count>>
    /\ UNCHANGED <<parseVars, sanVars, importVars, lookupVars, exportVars, numericVars, farmerVars>>

NextQuarantine == ListErrorFiles \/ ProcessErrorFile \/ EndErrorLoop \/ RunErrorsAgain

SpecQuarantine == InitQuarantine /\ [][NextQuarantine]_vars

(* Properties of the resubmission step *)

\* The file the main loop has just handed to process_error_file.
ErrorFileDone == epc \in {"loop", "aborted"} /\ error_no > 1
LastErrorFile == error_files[error_no - 1]
Archived(f) == \E k \in DOMAIN processed_error : processed_error[k].name = f.name

\* C16: quarantine writes replace.  Whenever the main loop archives a file
\* (process_error_file returned True and the move succeeded), the quarantine
\* table holds exactly the rows of that file: no row of an earlier file or of
\* an earlier run is left, and the file's rows are there once, also when the
\* file is processed a second time.
C16_QuarantineHoldsLastArchivedFile ==
    [][Len(processed_error') > Len(processed_error)
          => quarantine' = RowsOf(processed_error'[Len(processed_error')])]_vars

\* C17: the quarantine loop closes.  When the main loop has handed
\* process_error_file an erroneous-rows file written by sanitize_data (header:
\* the clean projection, source_row_number, error_reason) that has data rows,
\* the file has passed the essential-column check and its rows are the
\* quarantine table.
C17_SanitizerErrorFileIsAccepted ==
    (ErrorFileDone /\ WrittenBySanitizeData(LastErrorFile) /\ LastErrorFile.rows > 0)
        => /\ ESSENTIAL_COLUMNS_RAW \subseteq LastErrorFile.columns
           /\ quarantine = RowsOf(LastErrorFile)

----------------------------------------------------------------------------
(* data_manager.py handle_import: every *.csv of the raw data inbox is     *)
(* written to the main Delta table and then moved to the processed         *)
(* archive.                                                                *)

MaxImportFiles == 3
MaxImportRuns == 2

\* Line 108 (psgc_code is required only when the file has it).
required_cols == {"year", "event_date_start", "province", "municipality",
                  "losses_php_grand_total"}

\* A CSV file of the inbox: header, number of data rows, what read_csv does
\* ("ok", "EmptyDataError" for a file without a header line, "error"), what
\* write_deltalake does with its frame ("ok", "schema mismatch", "error") and
\* whether shutil.move succeeds.
RawFile(columns, rows, read, write, move_ok) ==
    [columns |-> columns, rows |-> rows, read |-> read, write |-> write,
     move_ok |-> move_ok]

RawFileKinds ==
    {RawFile(clean_final_columns, 2, "ok", "ok", TRUE),
     RawFile(clean_final_columns \ {"losses_php_grand_total"}, 2, "ok", "ok", TRUE),
     RawFile({}, 0, "EmptyDataError", "ok", TRUE),
     RawFile({}, 0, "error", "ok", TRUE),
     RawFile(clean_final_columns \cup {"remarks"}, 2, "ok", "schema mismatch", TRUE),
     RawFile(clean_final_columns, 2, "ok", "error", TRUE),
     RawFile(clean_final_columns, 2, "ok", "ok", FALSE)}

ModeOverrides == {"None", "overwrite", "append"}

FileNamed(files, name) == files[CHOOSE k \in DOMAIN files : files[k].name = name]
NamesInOrder(files) == [k \in DOMAIN files |-> files[k].name]

\* Lines 65-71.
InitialWriteMode(override, exists) ==
    IF override # "None" THEN override
    ELSE IF ~exists THEN "overwrite"
    ELSE "append"

\* Lines 77-81.
CurrentWriteMode(mode, first) ==
    IF mode = "overwrite" /\ ~first THEN "append" ELSE mode

\* Lines 122-127: the table after a write that succeeds.
write_deltalake(table, rows, mode) ==
    IF mode = "overwrite" THEN rows ELSE table \o rows

\* The exception classes the loop body catches (lines 158 and 168).
except_clauses_EmptyDataOnly == {"EmptyDataError"}
except_clauses == {"EmptyDataError", "Exception"}

\* Lines 83-156: what the try block does with one file.  outcome names the
\* path taken, raised the class of the exception that leaves the try block.
ImportFile(f, mode, table) ==
    IF f.read = "EmptyDataError"
    THEN [outcome |-> "empty", raised |-> "EmptyDataError", table |-> table]
    ELSE IF f.read = "error"
    THEN [outcome |-> "read error", raised |-> "Exception", table |-> table]
    ELSE IF ~(required_cols \subseteq f.columns)
    THEN [outcome |-> "missing columns", raised |-> "none", table |-> table]
    ELSE IF f.write = "schema mismatch"
    THEN [outcome |-> "schema mismatch", raised |-> "none", table |-> table]
    ELSE IF f.write = "error"
    THEN [outcome |-> "write error", raised |-> "Exception", table |-> table]
    ELSE [outcome |-> "written", raised |-> "none",
          table |-> write_deltalake(table, RowsOf(f), mode)]

InitImport ==
    /\ ParserIdle
    /\ SanitizeIdle
    /\ QuarantineIdle
    /\ LookupIdle
    /\ ExportIdle
    /\ NumericIdle
    /\ FarmerIdle
    /\ ipc = "start"
    /\ raw_data \in Inboxes(RawFileKinds, MaxImportFiles)
    /\ processed_data = <<>>
    /\ lakehouse_exists \in BOOLEAN
    /\ lakehouse = (IF lakehouse_exists THEN EarlierRows ELSE <<>>)
    /\ mode_override \in ModeOverrides
    /\ csv_files = <<>>
    /\ file_no = 0
    /\ first_file = TRUE
    /\ write_mode = "append"
    /\ processed_count = 0
    /\ failed_count = 0
    /\ attempted = <<>>
    /\ written = <<>>
    /\ import_runs = 1

\* Lines 40-71.
StartImport ==
    /\ ipc = "start"
    /\ csv_files' = NamesInOrder(raw_data)
    /\ attempted' = <<>>
    /\ IF raw_data = <<>>
       THEN /\ ipc' = "done"
            /\ UNCHANGED <<file_no, first_file, write_mode, processed_count, failed_count>>
       ELSE /\ ipc' = "loop"
            /\ file_no' = 1
            /\ processed_count' = 0
            /\ failed_count' = 0
            /\ first_file' = TRUE
            /\ write_mode' = InitialWriteMode(mode_override, lakehouse_exists)
    /\ UNCHANGED <<raw_data, processed_data, lakehouse, lakehouse_exists, mode_override,
                   written, import_runs>>
    /\ UNCHANGED <<parseVars, sanVars, quarantineVars, lookupVars, exportVars, numericVars, farmerVars>>

\* Lines 75-174: one iteration of the loop.
ImportNextFile ==
    /\ ipc = "loop"
    /\ file_no <= Len(csv_files)
    /\ LET name == csv_files[file_no]
           f == FileNamed(raw_data, name)
           out == ImportFile(f, CurrentWriteMode(write_mode, first_file), lakehouse)
           caught == out.raised = "none" \/ out.raised \in except_clauses
           moved == out.outcome \in {"written", "empty"} /\ f.move_ok
       IN /\ lakehouse' = out.table
          /\ lakehouse_exists' = (lakehouse_exists \/ out.outcome = "written")
          /\ written' = (IF out.outcome = "written" THEN Append(written, name) ELSE written)
          /\ raw_data' = (IF moved THEN Without(raw_data, name) ELSE raw_data)
          /\ processed_data' = (IF moved THEN Append(processed_data, f)
                                ELSE processed_data)
          /\ processed_count' =
                 processed_count + (IF out.outcome = "written" /\ moved THEN 1 ELSE 0)
          /\ failed_count' = failed_count + (IF caught /\ ~moved THEN 1 ELSE 0)
          /\ first_file' = (IF ~caught \/ out.outcome \in {"missing columns", "schema mismatch"}
                            THEN first_file ELSE FALSE)
          /\ ipc' = (IF caught THEN "loop" ELSE "aborted")
    /\ attempted' = Append(attempted, csv_files[file_no])
    /\ file_no' = file_no + 1
    /\ UNCHANGED <<mode_override, csv_files, write_mode, import_runs>>
    /\ UNCHANGED <<parseVars, sanVars, quarantineVars, lookupVars, exportVars, numericVars, farmerVars>>

\* Lines 176-179.
EndImport ==
    /\ ipc = "loop"
    /\ file_no > Len(csv_files)
    /\ ipc' = "done"
    /\ UNCHANGED <<raw_data, processed_data, lakehouse, lakehouse_exists, mode_override,
                   csv_files, file_no, first_file, write_mode, processed_count,
                   failed_count, attempted, written, import_runs>>
    /\ UNCHANGED <<parseVars, sanVars, quarantineVars, lookupVars, exportVars, numericVars, farmerVars>>

\* handle_import is called again on what is left in the inbox.
ImportAgain ==
    /\ ipc \in {"done", "aborted"}
    /\ import_runs < MaxImportRuns
    /\ ipc' = "start"
    /\ mode_override' \in ModeOverrides
    /\ import_runs' = import_runs + 1
    /\ UNCHANGED <<raw_data, processed_data, lakehouse, lakehouse_exists, csv_files,
                   file_no, first_file, write_mode, processed_count, failed_count,
                   attempted, written>>
    /\ UNCHANGED <<parseVars, sanVars, quarantineVars, lookupVars, exportVars, numericVars, farmerVars>>

NextImport == StartImport \/ ImportNextFile \/ EndImport \/ ImportAgain

SpecImport == InitImport /\ [][NextImport]_vars

(* Properties of handle_import *)

TimesIn(names, name) == Cardinality({k \in DOMAIN names : names[k] = name})
InSeq(names, name) == \E k \in DOMAIN names : names[k] = name

\* C18: no partial success.  When handle_import has returned, the rows of
\* a file that is still in the inbox have not been committed to the main
\* table, the rows of a file that is in the processed archive have been (a
\* file without data rows has none to commit), and over all runs no file's
\* rows were committed more than once.
C18_WrittenIffArchived ==
    ipc = "done" =>
        /\ \A k \in DOMAIN raw_data : ~InSeq(written, raw_data[k].name)
        /\ \A k \in DOMAIN processed_data :
               processed_data[k].rows > 0 => InSeq(written, processed_data[k].name)
        /\ \A k \in DOMAIN written : TimesIn(written, written[k]) <= 1

(* Structurally invalid files, in both loops *)

MissingEssentialColumns(f) == f.readable /\ ~(ESSENTIAL_COLUMNS_RAW \subseteq f.columns)
MissingRequiredColumns(f) == f.read = "ok" /\ ~(required_cols \subseteq f.columns)

\* The step in which the error-file loop, or handle_import's loop, handles a
\* file whose header lacks a required column.
RejectsErrorFile ==
    /\ epc = "loop"
    /\ error_no <= Len(error_files)
    /\ error_no' = error_no + 1
    /\ MissingEssentialColumns(error_files[error_no])

RejectsRawFile ==
    /\ ipc = "loop"
    /\ file_no <= Len(csv_files)
    /\ file_no' = file_no + 1
    /\ MissingRequiredColumns(FileNamed(raw_data, csv_files[file_no]))

\* C19: a file that lacks a required column is rejected wholesale.  The step
\* that handles it leaves the destination table as it was (none of the
\* file's rows are written) and leaves the file in the inbox: nothing is
\* added to the processed archive.  This holds for the error-file loop of
\* process_error_rows and for handle_import.
C19_InvalidFileIsLeftInPlace ==
    [][/\ RejectsErrorFile =>
              UNCHANGED <<quarantine, quarantine_exists, error_input, processed_error>>
       /\ RejectsRawFile =>
              UNCHANGED <<lakehouse, lakehouse_exists, raw_data, processed_data>>]_vars

(* Termination of handle_import's loop *)

\* The loop is a sequential for statement over a finite list and every
\* statement of its body returns or raises: an iteration that can be taken is
\* taken, and so is the return after the last one.
SpecImportFair ==
    InitImport /\ [][NextImport]_vars /\ WF_vars(ImportNextFile) /\ WF_vars(EndImport)

\* C20: a failing file never aborts the run.  No exception of a file leaves
\* the loop; inside the loop the files attempted so far are exactly the
\* files of the list before the current position, in order; and a run that
\* has entered the loop returns after attempting every listed file once,
\* whichever files failed (missing required columns, schema mismatch, read
\* error, other write error, move error).
C20_FailingFileNeverAbortsRun ==
    /\ [](ipc # "aborted")
    /\ [](ipc = "loop" => attempted = SubSeq(csv_files, 1, file_no - 1))
    /\ (ipc = "loop") ~> (ipc = "done" /\ attempted = csv_files)

\* A finished run of three files: the first met a write error that is not a
\* schema mismatch, the second a move error, and the third, read after both,
\* is imported and archived.
C20_Witness ==
    /\ ipc = "done"
    /\ Len(csv_files) = 3
    /\ attempted = csv_files
    /\ \E k \in DOMAIN raw_data : raw_data[k].name = csv_files[1] /\ raw_data[k].write = "error"
    /\ \E k \in DOMAIN raw_data : raw_data[k].name = csv_files[2] /\ ~raw_data[k].move_ok
    /\ \E k \in DOMAIN processed_data : processed_data[k].name = csv_files[3]
    /\ InSeq(written, csv_files[3])
    /\ failed_count = 2
    /\ processed_count = 1

(* The table after a run in overwrite mode *)

\* The file of that name, in the inbox or in the processed archive.
FileOfName(name) == FileNamed(raw_data \o processed_data, name)

\* The files of this run whose rows the try block wrote, in order.
WrittenInThisRun ==
    SelectSeq(attempted, LAMBDA name : ImportFile(FileOfName(name), "append", <<>>).outcome = "written")

RECURSIVE RowsOfAll(_)
RowsOfAll(names) ==
    IF names = <<>> THEN <<>> ELSE RowsOf(FileOfName(names[1])) \o RowsOfAll(Tail(names))

\* C25: when a run of handle_import in overwrite mode (forced, or because
\* the table did not exist) has written at least one file, the main table
\* holds exactly the rows of the files written in this run, in order,
\* whatever happened to the files before the first one written.
C25_OverwriteLeavesOnlyThisRun ==
    (ipc = "done" /\ csv_files # <<>> /\ write_mode = "overwrite" /\ WrittenInThisRun # <<>>)
        => lakehouse = RowsOfAll(WrittenInThisRun)

(* The counts of a run *)

\* C30: at the end of a run every listed file has been counted once, as a
\* success or as a failure: processed_count + failed_count is the number of
\* CSV files found in the inbox.
C30_CountsAccountForEveryFile ==
    (ipc = "done" /\ csv_files # <<>>) => processed_count + failed_count = Len(csv_files)

----------------------------------------------------------------------------
(* The final fallback of parse_date_range_smart on a day continuation *)

\* 'Month D-E' with its month and days, and 'Month D, YYYY-E' with its year.
DayContinuationCases ==
    {<<Name(c[1]) \o " " \o Num(c[2]) \o "-" \o Num(c[3]), c[1], c[2], c[3]>> :
        c \in (1..12) \X DaySet \X DaySet}
OwnYearContinuationCases ==
    {<<Name(c[1]) \o " " \o Num(c[2]) \o ", " \o Num(c[4]) \o "-" \o Num(c[3]), c[1], c[2], c[3], c[4]>> :
        c \in {2, 7} \X {15, 29} \X {17, 29} \X RangeYears}

HintPresent == year_original_val.t = "num"

\* C28: in the final fallback a start phrase 'Month D' followed by a pure
\* integer E gives start = day D and end = day E of that month, in the start
\* phrase's own year if it has one and else in the year hint (D and E being
\* days of that month, the hint within one year of an own year); a start
\* phrase without a day ('July - 17') fails with an 'Ambiguous range' reason.
C28_DayContinuationInFallback ==
    (Returned /\ HintPresent) =>
        /\ \A c \in DayContinuationCases :
              (date_str = PyStr(c[1]) /\ c[3] <= LastDayOf(c[2], year_original_val.n)
                  /\ c[4] <= LastDayOf(c[2], year_original_val.n)) =>
                  /\ parse_result.start = DayOfYear(year_original_val.n, c[2], c[3])
                  /\ parse_result.end = DayOfYear(year_original_val.n, c[2], c[4])
        /\ \A c \in OwnYearContinuationCases :
              (date_str = PyStr(c[1]) /\ c[3] <= LastDayOf(c[2], c[5]) /\ c[4] <= LastDayOf(c[2], c[5])
                  /\ HintAbsentOrWithinOne(c[5])) =>
                  /\ parse_result.start = DayOfYear(c[5], c[2], c[3])
                  /\ parse_result.end = DayOfYear(c[5], c[2], c[4])
        /\ (date_str.t = "str" /\ date_str.s \in TextMonthToDay) =>
              /\ NoDates(parse_result)
              /\ parse_result.remark.t = "str"
              /\ Contains(parse_result.remark.s, "Ambiguous range")

----------------------------------------------------------------------------
(* The parser called with any year value *)

\* Year values beside a number and NaN: None, text, and the float infinity
\* pd.to_numeric makes of a cell 'inf'.
AnyYearValues ==
    {PyNaN, PyNone, PyInf, PyStr("2020"), PyStr(" 2021 "), PyStr("abc"), PyStr("")}
        \cup {PyNum(y) : y \in {2019, 2020, 2021, 2023}}

AnyDateValues ==
    {PyStr(t) : t \in TextMonthDayDay \cup TextMonthToMonth \cup TextMonthToDay \cup TextOther}
        \cup {PyStr(Name(m) \o " " \o Num(d) \o ", 2020") : m \in FewMonths, d \in DaySet}
        \cup NativeDates \cup {PyNaN, PyNone, PyNum(2020)}

InitParseAny ==
    /\ ppc = "call"
    /\ date_str \in AnyDateValues
    /\ year_original_val \in AnyYearValues
    /\ parse_result = NotCalled
    /\ SanitizeIdle
    /\ QuarantineIdle
    /\ ImportIdle
    /\ FarmerIdle
    /\ NumericIdle
    /\ ExportIdle
    /\ LookupIdle

SpecParseAny == InitParseAny /\ [][NextParse]_vars

\* C29: the parser is total.  For every date value and every year value it
\* returns, without raising, either two dates and a non-empty remark or
\* (None, None, r) with r a reason or None; never exactly one date.
C29_ParserIsTotal ==
    Returned =>
        /\ parse_result.exc = ""
        /\ \/ /\ HasDates(parse_result)
              /\ parse_result.remark.t = "str"
              /\ parse_result.remark.s # ""
           \/ /\ NoDates(parse_result)
              /\ parse_result.remark = PyNone \/ parse_result.remark.t = "str"

----------------------------------------------------------------------------
(* psgc_lookup.py: create_lookup_from_geojson writes psgc_lookup.csv from   *)
(* the boundary GeoJSON; sanitize_data reads the file back (lines 207-217)  *)
(* and joins the sheet rows against it (lines 256-263).                     *)

MaxFeatures == 3

\* A GeoJSON feature's properties (lines 12-14).
Feature(prov, mun, code) == [adm2_en |-> prov, adm3_en |-> mun, adm3_psgc |-> code]

Features ==
    {Feature("Iloilo", "Oton", "063034"), Feature("ILOILO ", " oton", "063099"),
     Feature("Iloilo", "Pavia", "063035"), Feature("Capiz", "Oton", "061901"),
     Feature("iloilo", "OTON", "063000"), Feature("Capiz", "Pavia ", " 061902")}

\* Lines 43-54: select, rename, upper-case and strip.
StandardizeLookup(features) ==
    [i \in 1..Len(features) |->
        [province_name |-> strip(upper(features[i].adm2_en)),
         municipality_name |-> strip(upper(features[i].adm3_en)),
         psgc_code |-> strip(features[i].adm3_psgc)]]

Reversed(q) == [i \in 1..Len(q) |-> q[Len(q) + 1 - i]]

\* Line 58: drop_duplicates(subset=[province_name, municipality_name], keep='first').
drop_duplicates_keep_last(rows) == Reversed(DropDuplicates(Reversed(rows), <<>>))
drop_duplicates_keep_first(rows) == DropDuplicates(rows, <<>>)

\* Code points of the characters of a standardized name.
CharOrd ==
    [c \in UpperSet \cup DigitSet \cup {" "} |->
        IF c = " " THEN 32
        ELSE IF c \in DigitSet THEN 48 + DigitValue[c]
        ELSE 64 + (CHOOSE i \in 1..26 : UpperSeq[i] = c)]

\* Python's string order.
RECURSIVE StrLess(_, _)
StrLess(a, b) ==
    IF b = "" THEN FALSE
    ELSE IF a = "" THEN TRUE
    ELSE IF CharAt(a, 1) = CharAt(b, 1) THEN StrLess(SubSeq(a, 2, Len(a)), SubSeq(b, 2, Len(b)))
    ELSE CharOrd[CharAt(a, 1)] < CharOrd[CharAt(b, 1)]

KeyLess(r, q) ==
    \/ StrLess(r.province_name, q.province_name)
    \/ r.province_name = q.province_name /\ StrLess(r.municipality_name, q.municipality_name)

\* Line 64: sort_values(by=[province_name, municipality_name]); rows with equal
\* keys keep their order.
RECURSIVE InsertSorted(_, _)
InsertSorted(sorted, r) ==
    IF sorted = <<>> THEN <<r>>
    ELSE IF KeyLess(r, sorted[1]) THEN <<r>> \o sorted
    ELSE <<sorted[1]>> \o InsertSorted(Tail(sorted), r)

RECURSIVE sort_values(_)
sort_values(rows) ==
    IF rows = <<>> THEN <<>>
    ELSE InsertSorted(sort_values(SubSeq(rows, 1, Len(rows) - 1)), rows[Len(rows)])

\* Lines 17-69.
create_lookup_from_geojson(features) ==
    sort_values(drop_duplicates_keep_first(StandardizeLookup(features)))

\* pd.read_csv of the written file (sanitizer_test.py line 207): a column of
\* digit strings is read as integers, so a code loses its leading zeros, and
\* the default missing-value markers are read as NaN, which astype(str) turns
\* into 'nan'.
NaMarkers == {"", "NA", "N/A", "NULL"}
read_csv_lookup(rows) ==
    [i \in 1..Len(rows) |->
        [province_name |-> IF rows[i].province_name \in NaMarkers THEN "nan"
                           ELSE rows[i].province_name,
         municipality_name |-> IF rows[i].municipality_name \in NaMarkers THEN "nan"
                               ELSE rows[i].municipality_name,
         psgc_code |-> IF AllDigits(rows[i].psgc_code) /\ rows[i].psgc_code # ""
                       THEN ToString(IntOf(rows[i].psgc_code))
                       ELSE rows[i].psgc_code]]

\* Sheet rows as they reach the merge: names upper-cased, one without a province.
SheetKeys ==
    <<[label |-> 0, pos |-> 1, province |-> PyStr("ILOILO"), municipality |-> PyStr("OTON")],
      [label |-> 1, pos |-> 2, province |-> PyStr("CAPIZ"), municipality |-> PyStr("OTON")],
      [label |-> 2, pos |-> 3, province |-> PyNone, municipality |-> PyStr("PAVIA")],
      [label |-> 3, pos |-> 4, province |-> PyStr("ILOILO"), municipality |-> PyStr("OTON")]>>

InitLookup ==
    /\ ParserIdle
    /\ SanitizeIdle
    /\ QuarantineIdle
    /\ ImportIdle
    /\ FarmerIdle
    /\ NumericIdle
    /\ ExportIdle
    /\ lpc = "start"
    /\ geojson \in SeqsUpTo(Features, MaxFeatures)
    /\ lookup_csv = <<>>
    /\ joined = <<>>

\* psgc_lookup.py lines 86-87.
CreateLookup ==
    /\ lpc = "start"
    /\ lookup_csv' = create_lookup_from_geojson(geojson)
    /\ lpc' = "created"
    /\ UNCHANGED <<geojson, joined>>
    /\ UNCHANGED <<parseVars, sanVars, quarantineVars, importVars, exportVars, numericVars, farmerVars>>

\* sanitizer_test.py lines 207-217 and 256-263 on the written file.
JoinSheet ==
    /\ lpc = "created"
    /\ joined' = Merged(SheetKeys, LoadedLookup(read_csv_lookup(lookup_csv)))
    /\ lpc' = "joined"
    /\ UNCHANGED <<geojson, lookup_csv>>
    /\ UNCHANGED <<parseVars, sanVars, quarantineVars, importVars, exportVars, numericVars, farmerVars>>

NextLookup == CreateLookup \/ JoinSheet

SpecLookup == InitLookup /\ [][NextLookup]_vars

(* Properties of the lookup table *)

LookupKey(r) == <<r.province_name, r.municipality_name>>
FeatureKey(f) == <<strip(upper(f.adm2_en)), strip(upper(f.adm3_en))>>
FirstWithKey(key) == CHOOSE k \in DOMAIN geojson :
    FeatureKey(geojson[k]) = key /\ \A m \in 1..(k - 1) : FeatureKey(geojson[m]) # key

\* C21: after de-duplication the lookup has one entry per (province,
\* municipality) pair compared after upper-casing and trimming, every pair of
\* the input is there, its code is the code of the pair's first feature in
\* input order, and the left join of the sheet rows against the loaded
\* lookup returns each sheet row once, in order.
C21_LookupHasOneCodePerPair ==
    /\ lpc \in {"created", "joined"} =>
          /\ \A i, j \in DOMAIN lookup_csv :
                 LookupKey(lookup_csv[i]) = LookupKey(lookup_csv[j]) => i = j
          /\ {LookupKey(lookup_csv[i]) : i \in DOMAIN lookup_csv}
                 = {FeatureKey(geojson[k]) : k \in DOMAIN geojson}
          /\ \A i \in DOMAIN lookup_csv :
                 lookup_csv[i].psgc_code
                     = strip(geojson[FirstWithKey(LookupKey(lookup_csv[i]))].adm3_psgc)
    /\ lpc = "joined" =>
          /\ Len(joined) = Len(SheetKeys)
          /\ \A i \in DOMAIN joined : joined[i].pos = SheetKeys[i].pos

\* Two spellings of (ILOILO, OTON) with different codes, the second spelling
\* first in the file: one entry is kept, with the first code, and both sheet
\* rows of that municipality receive it once.
C21_Witness ==
    /\ lpc = "joined"
    /\ Len(geojson) = 3
    /\ geojson[1] = Feature("ILOILO ", " oton", "063099")
    /\ geojson[2] = Feature("Iloilo", "Oton", "063034")
    /\ \E i \in DOMAIN lookup_csv :
           lookup_csv[i] = [province_name |-> "ILOILO", municipality_name |-> "OTON",
                            psgc_code |-> "063099"]
    /\ Len(joined) = 4
    /\ joined[1].psgc_code = PyStr("63099")
    /\ joined[4].psgc_code = PyStr("63099")

----------------------------------------------------------------------------
(* data_manager.py handle_export: the main table, as handle_import wrote   *)
(* it from a clean CSV, is joined to the municipal boundaries and           *)
(* aggregated per municipality.                                             *)

MaxDisasterRows == 3

\* A data row of a clean CSV file; an empty cell is "".
CsvRow(prov, mun, code, loss) ==
    [province |-> prov, municipality |-> mun, psgc_code |-> code,
     losses_php_grand_total |-> loss]

CsvRows ==
    {CsvRow("Iloilo", "Oton", "63034", 100), CsvRow("Iloilo", "Oton", "", 200),
     CsvRow("iloilo", "Pavia ", "63035", 50), CsvRow("Capiz", "Roxas", "", 70),
     CsvRow("Iloilo", "Pavia", "63034", 30)}

\* The features of WV_Municipalities.geojson, in the order of the query's
\* ORDER BY (province_name, municipality_name).
Boundaries ==
    <<[province_name |-> "Capiz", municipality_name |-> "Oton", psgc_code |-> "61901"],
      [province_name |-> "Iloilo", municipality_name |-> "Oton", psgc_code |-> "63034"],
      [province_name |-> "Iloilo", municipality_name |-> "Pavia", psgc_code |-> "63035"]>>

\* Lines 84-89: read_csv, astype(str).str.upper().str.strip() of a name cell.
ImportedName(cell) == IF cell \in NaMarkers THEN "NAN" ELSE strip(upper(cell))

\* Lines 84 and 94-97: read_csv infers the column type of psgc_code from all
\* cells (digits only: int64; digits and empty cells: float64; other text:
\* object), then astype(str).str.strip().
ImportedCode(cells, cell) ==
    LET filled == {c \in cells : c # ""}
        numeric == \A c \in filled : AllDigits(c)
    IN IF cell = "" THEN "nan"
       ELSE IF numeric /\ "" \in cells THEN ToString(IntOf(cell)) \o ".0"
       ELSE IF numeric THEN ToString(IntOf(cell))
       ELSE strip(cell)

CodeCells(csv) == {csv[i].psgc_code : i \in DOMAIN csv}

\* Lines 84-126: the rows handle_import writes for one file.
ImportedRows(csv, has_psgc) ==
    [i \in DOMAIN csv |->
        [province |-> ImportedName(csv[i].province),
         municipality |-> ImportedName(csv[i].municipality),
         psgc_code |-> IF has_psgc THEN ImportedCode(CodeCells(csv), csv[i].psgc_code) ELSE "",
         losses_php_grand_total |-> csv[i].losses_php_grand_total]]

\* Lines 376-382: one condition for the whole table, chosen by the presence of
\* the psgc_code column.
NameCondition(md, mb) ==
    /\ upper(md.municipality) = upper(mb.municipality_name)
    /\ upper(md.province) = upper(mb.province_name)
JoinCondition(md, mb, has_psgc) ==
    IF has_psgc THEN md.psgc_code = mb.psgc_code ELSE NameCondition(md, mb)

RECURSIVE SumLosses(_)
SumLosses(rows) ==
    IF rows = <<>> THEN 0 ELSE rows[1].losses_php_grand_total + SumLosses(Tail(rows))

\* Lines 385-410: JOIN ... GROUP BY municipality.
Aggregate(table, mb, has_psgc) ==
    LET matched == SelectSeq(table, LAMBDA md : JoinCondition(md, mb, has_psgc))
    IN [province_name |-> mb.province_name, municipality_name |-> mb.municipality_name,
        psgc_code |-> mb.psgc_code, total_loss_php |-> SumLosses(matched),
        incident_count |-> Len(matched)]

handle_export(table, has_psgc) ==
    SelectSeq([k \in DOMAIN Boundaries |-> Aggregate(table, Boundaries[k], has_psgc)],
              LAMBDA a : a.incident_count > 0)

InitExport ==
    /\ ParserIdle
    /\ SanitizeIdle
    /\ QuarantineIdle
    /\ ImportIdle
    /\ FarmerIdle
    /\ NumericIdle
    /\ LookupIdle
    /\ xpc = "start"
    /\ clean_csv \in SeqsUpTo(CsvRows, MaxDisasterRows)
    /\ csv_has_psgc \in BOOLEAN
    /\ main_disasters_df = <<>>
    /\ api_data = <<>>

\* handle_import of the file into an empty table (lines 84-126).
ImportCleanCsv ==
    /\ xpc = "start"
    /\ main_disasters_df' = ImportedRows(clean_csv, csv_has_psgc)
    /\ xpc' = "imported"
    /\ UNCHANGED <<clean_csv, csv_has_psgc, api_data>>
    /\ UNCHANGED <<parseVars, sanVars, quarantineVars, importVars, lookupVars, numericVars, farmerVars>>

\* Lines 250-420.
Export ==
    /\ xpc = "imported"
    /\ api_data' = handle_export(main_disasters_df, csv_has_psgc)
    /\ xpc' = "exported"
    /\ UNCHANGED <<clean_csv, csv_has_psgc, main_disasters_df>>
    /\ UNCHANGED <<parseVars, sanVars, quarantineVars, importVars, lookupVars, numericVars, farmerVars>>

NextExport == ImportCleanCsv \/ Export

SpecExport == InitExport /\ [][NextExport]_vars

(* Properties of the export join *)

\* The rows of the file that the claimed rule joins to boundary mb: by code
\* when the row and the boundary both carry one, by upper-cased names otherwise.
CarriesCode(row) == csv_has_psgc /\ row.psgc_code # ""
JoinsByRule(row, mb) ==
    IF CarriesCode(row) /\ mb.psgc_code # "" THEN strip(row.psgc_code) = mb.psgc_code
    ELSE /\ strip(upper(row.municipality)) = upper(mb.municipality_name)
         /\ strip(upper(row.province)) = upper(mb.province_name)
RowsByRule(mb) == {i \in DOMAIN clean_csv : JoinsByRule(clean_csv[i], mb)}
CountFor(mb) ==
    IF \E k \in DOMAIN api_data : api_data[k].psgc_code = mb.psgc_code
    THEN api_data[CHOOSE k \in DOMAIN api_data : api_data[k].psgc_code = mb.psgc_code].incident_count
    ELSE 0

\* C22: in the exported aggregates a disaster row counts for a boundary
\* exactly if it joins it by PSGC code when both carry a code, and by the
\* upper-cased (province, municipality) pair otherwise; in particular a row
\* without a code whose names match a boundary counts for that municipality.
C22_ExportJoinsByCodeElseByName ==
    xpc = "exported" =>
        \A k \in DOMAIN Boundaries : CountFor(Boundaries[k]) = Cardinality(RowsByRule(Boundaries[k]))

----------------------------------------------------------------------------
(* clean_numeric_column applied to one column (sanitizer_test.py lines     *)
(* 36-41, called at line 275 for every loss, area and count column).       *)

MaxCells == 2

\* Raw cells of a numeric column with the number each is meant to become:
\* reported numbers, text with thousands separators and blanks, placeholders.
NumericCases ==
    {<<PyNum(0), 0>>, <<PyNum(1500), 1500>>, <<PyStr("1,000"), 1000>>,
     <<PyStr(" 12 "), 12>>, <<PyStr("1,234,567"), 1234567>>, <<PyStr("-"), 0>>,
     <<PyStr(" - "), 0>>, <<PyStr("n/a"), 0>>, <<PyStr(""), 0>>, <<PyNaN, 0>>,
     <<PyStr("(100)"), 0>>}

\* Reported losses written with a sign.
SignedCells == {PyNum(0 - 5), PyStr("-1,000")}

NumericCells == {c[1] : c \in NumericCases} \cup SignedCells

InitNumeric ==
    /\ ParserIdle
    /\ SanitizeIdle
    /\ QuarantineIdle
    /\ ImportIdle
    /\ FarmerIdle
    /\ LookupIdle
    /\ ExportIdle
    /\ npc = "start"
    /\ series \in SeqsUpTo(NumericCells, MaxCells)
    /\ cleaned_series = <<>>

\* Line 275: df_processed[col] = clean_numeric_column(df_processed[col]).
CleanColumn ==
    /\ npc = "start"
    /\ cleaned_series' = [i \in DOMAIN series |-> clean_numeric_column(series[i])]
    /\ npc' = "cleaned"
    /\ UNCHANGED series
    /\ UNCHANGED <<parseVars, sanVars, quarantineVars, importVars, lookupVars, exportVars, farmerVars>>

NextNumeric == CleanColumn

SpecNumeric == InitNumeric /\ [][NextNumeric]_vars

\* C23: every cell of the cleaned column is a non-negative number;
\* thousands separators and surrounding blanks are stripped, a lone '-' is 0,
\* and a missing or otherwise unparseable cell is 0.
C23_CleanNumericIsNonNegative ==
    npc = "cleaned" =>
        \A i \in DOMAIN series :
            /\ cleaned_series[i] >= 0
            /\ \A c \in NumericCases : c[1] = series[i] => cleaned_series[i] = c[2]

----------------------------------------------------------------------------
(* A clean row fed back through the parser and the validation *)

\* The row of df_processed made from a row of the clean output: its year is
\* the reported year, its event_date_start text is the date cell, the other
\* fields are carried over.
RefedRow(c) ==
    [label |-> 0,
     pos |-> c.pos,
     year_original |-> to_numeric(PyStr(c.year)),
     date_range_str |-> PyStr(c.event_date_start),
     province |-> c.province,
     municipality |-> c.municipality,
     losses_php_grand_total |-> PyNum(c.losses_php_grand_total),
     area_partially_damaged_ha |-> PyNum(c.area_partially_damaged_ha),
     area_totally_damaged_ha |-> PyNum(c.area_totally_damaged_ha),
     area_total_affected_ha |-> PyNum(c.area_total_affected_ha)]

RefedOriginal(c) ==
    <<[label |-> 0,
       raw |-> [year |-> PyStr(c.year), date |-> PyStr(c.event_date_start)],
       source_row_number |-> 3]>>

\* Lines 253-339 on the one-row frame: join, parse, validate.
Revalidate(c, lookup_loaded, lookup) ==
    LET refed == ParsedFrame(WithPsgc(<<RefedRow(c)>>, lookup_loaded, lookup))
    IN [rows |-> Len(refed),
        raised |-> \E i \in 1..Len(refed) : refed[i].raised \/ RaisesKeyError(refed[i], RefedOriginal(c)),
        reasons |-> IF Len(refed) = 1 /\ ~RaisesKeyError(refed[1], RefedOriginal(c))
                    THEN Reasons(refed[1], RefedOriginal(c), lookup_loaded)
                    ELSE <<"not validated">>]

\* C24: every row of the clean output, fed back through the parser and the
\* validation with its year as the reported year and its event_date_start
\* text as the date cell, under the same lookup, is one row with an empty
\* list of violations and no exception.
C24_CleanRowsStayClean ==
    pc = "done" =>
        \A i \in 1..Len(clean_rows) :
            LET again == Revalidate(clean_rows[i], has_lookup, psgc_lookup_df)
            IN again.rows = 1 /\ ~again.raised /\ again.reasons = <<>>

\* A finished run with the lookup loaded and a clean row whose date cell was
\* not already in the output's format.
C24_Witness ==
    /\ pc = "done"
    /\ has_lookup
    /\ \E i \in 1..Len(clean_rows) :
            /\ sheet[clean_rows[i].pos + 1].date # PyStr(clean_rows[i].event_date_start)
            /\ clean_rows[i].event_date_end # clean_rows[i].event_date_start

----------------------------------------------------------------------------
(* process_farmer_registry.py: the loader of the farmer registry.  An XLSX  *)
(* file is a record: title is the text of its name between 'RSBSA ' and     *)
(* ' Rice Farmers', rows the number of its municipality rows, and the other *)
(* fields say what the environment does to each call made for it.           *)

MaxFarmerFiles == 2

FarmerFile(title, read, empty, columns_ok, rows, query_ok, delete_ok, write_ok, move_ok) ==
    [title |-> title, read |-> read, empty |-> empty, columns_ok |-> columns_ok,
     rows |-> rows, query_ok |-> query_ok, delete_ok |-> delete_ok, write_ok |-> write_ok,
     move_ok |-> move_ok]

FarmerFileKinds ==
    {FarmerFile("Iloilo", "ok", FALSE, TRUE, 2, TRUE, TRUE, TRUE, TRUE),    \* valid
     FarmerFile(" capiz", "ok", FALSE, TRUE, 1, TRUE, TRUE, TRUE, TRUE),    \* valid, other province
     FarmerFile("Unknown", "ok", FALSE, TRUE, 1, TRUE, TRUE, TRUE, TRUE),   \* province 'UNKNOWN'
     FarmerFile("Iloilo", "error", FALSE, TRUE, 0, TRUE, TRUE, TRUE, TRUE), \* read_excel raises
     FarmerFile("Iloilo", "ok", TRUE, TRUE, 0, TRUE, TRUE, TRUE, TRUE),     \* df.empty
     FarmerFile("Iloilo", "ok", FALSE, FALSE, 1, TRUE, TRUE, TRUE, TRUE),   \* a column is missing
     FarmerFile("Iloilo", "ok", FALSE, TRUE, 0, TRUE, TRUE, TRUE, TRUE),    \* no municipality row
     FarmerFile("Iloilo", "ok", FALSE, TRUE, 1, FALSE, TRUE, TRUE, TRUE),   \* to_pandas raises
     FarmerFile("Iloilo", "ok", FALSE, TRUE, 1, TRUE, FALSE, TRUE, TRUE),   \* dt.delete raises
     FarmerFile("Iloilo", "ok", FALSE, TRUE, 1, TRUE, TRUE, FALSE, TRUE),   \* write_deltalake raises
     FarmerFile("Iloilo", "ok", FALSE, TRUE, 1, TRUE, TRUE, TRUE, FALSE)}   \* shutil.move raises

SelectedModes == {"append", "overwrite", "dynamic_overwrite"}

\* Lines 26-35: the province is the matched text, stripped and upper-cased.
extract_province_from_filename(f) == strip(upper(f.title))

\* final_df: the municipality rows of the file under its province.
FarmerRows(f) ==
    [k \in 1..f.rows |-> [province |-> extract_province_from_filename(f), file |-> f.name, row |-> k]]

EarlierFarmerRows ==
    <<[province |-> "ILOILO", file |-> 0, row |-> 1], [province |-> "CAPIZ", file |-> 0, row |-> 1]>>

\* dt.to_pandas(filters=[('province', '=', p)]) and dt.delete("province IN ('p')").
RowsOfProvince(table, p) == SelectSeq(table, LAMBDA r : r.province = p)
DeleteProvince(table, p) == SelectSeq(table, LAMBDA r : r.province # p)

FarmerResult(ok, outcome, table, exists) ==
    [ok |-> ok, outcome |-> outcome, table |-> table, exists |-> exists]

\* Lines 157-204: delete the province's rows, then append.
DynamicOverwrite(f, table, exists) ==
    LET current_province == extract_province_from_filename(f)
        existing_data == IF f.query_ok THEN RowsOfProvince(table, current_province) ELSE <<>>
        deleted == IF existing_data # <<>> THEN DeleteProvince(table, current_province) ELSE table
    IN IF ~exists
       THEN (IF f.write_ok THEN FarmerResult(TRUE, "written", FarmerRows(f), TRUE)
             ELSE FarmerResult(FALSE, "write error", table, exists))
       ELSE IF existing_data # <<>> /\ ~f.delete_ok
            THEN FarmerResult(FALSE, "delete error", table, exists)
       ELSE IF f.write_ok
            THEN FarmerResult(TRUE, "written", deleted \o FarmerRows(f), TRUE)
       ELSE FarmerResult(FALSE, "write error", deleted, exists)

\* Lines 61-251: the value returned and the table afterwards.
process_farmer_xlsx_to_delta(f, mode, table, exists) ==
    IF extract_province_from_filename(f) = "UNKNOWN"
    THEN FarmerResult(FALSE, "unknown province", table, exists)
    ELSE IF f.read # "ok" THEN FarmerResult(FALSE, "read error", table, exists)
    ELSE IF f.empty THEN FarmerResult(TRUE, "empty", table, exists)
    ELSE IF ~f.columns_ok THEN FarmerResult(FALSE, "missing columns", table, exists)
    ELSE IF f.rows = 0 THEN FarmerResult(TRUE, "no municipality rows", table, exists)
    ELSE IF mode = "dynamic_overwrite" THEN DynamicOverwrite(f, table, exists)
    ELSE IF f.write_ok
         THEN FarmerResult(TRUE, "written", write_deltalake(table, FarmerRows(f), mode), TRUE)
    ELSE FarmerResult(FALSE, "write error", table, exists)

\* Lines 286-292: the mode of the file at position i (counted from 1 here).
FarmerWriteMode(mode, i) == IF mode = "overwrite" /\ i > 1 THEN "append" ELSE mode

InitFarmer ==
    /\ ParserIdle
    /\ SanitizeIdle
    /\ QuarantineIdle
    /\ ImportIdle
    /\ LookupIdle
    /\ ExportIdle
    /\ NumericIdle
    /\ fpc = "start"
    /\ farmer_input \in Inboxes(FarmerFileKinds, MaxFarmerFiles)
    /\ farmer_processed = <<>>
    /\ farmer_exists \in BOOLEAN
    /\ farmer_table = (IF farmer_exists THEN EarlierFarmerRows ELSE <<>>)
    /\ selected_mode \in SelectedModes
    /\ raw_files = <<>>
    /\ farmer_no = 0
    /\ farmer_processed_count = 0
    /\ farmer_failed_count = 0

\* Lines 263-282.
ListFarmerFiles ==
    /\ fpc = "start"
    /\ raw_files' = NamesInOrder(farmer_input)
    /\ farmer_no' = 1
    /\ fpc' = (IF farmer_input = <<>> THEN "done" ELSE "loop")
    /\ UNCHANGED <<farmer_input, farmer_processed, farmer_table, farmer_exists, selected_mode,
                   farmer_processed_count, farmer_failed_count>>
    /\ UNCHANGED <<parseVars, sanVars, quarantineVars, importVars, lookupVars, exportVars, numericVars>>

\* Lines 284-309: one iteration of the loop.
ProcessFarmerFile ==
    /\ fpc = "loop"
    /\ farmer_no <= Len(raw_files)
    /\ LET f == FileNamed(farmer_input, raw_files[farmer_no])
           out == process_farmer_xlsx_to_delta(f, FarmerWriteMode(selected_mode, farmer_no),
                                               farmer_table, farmer_exists)
           moved == out.ok /\ f.move_ok
       IN /\ farmer_table' = out.table
          /\ farmer_exists' = out.exists
          /\ farmer_input' = (IF moved THEN Without(farmer_input, f.name) ELSE farmer_input)
          /\ farmer_processed' = (IF moved THEN Append(farmer_processed, f) ELSE farmer_processed)
          /\ farmer_processed_count' = farmer_processed_count + (IF moved THEN 1 ELSE 0)
          /\ farmer_failed_count' = farmer_failed_count + (IF moved THEN 0 ELSE 1)
    /\ farmer_no' = farmer_no + 1
    /\ UNCHANGED <<fpc, selected_mode, raw_files>>
    /\ UNCHANGED <<parseVars, sanVars, quarantineVars, importVars, lookupVars, exportVars, numericVars>>

\* Lines 311-314.
EndFarmerLoop ==
    /\ fpc = "loop"
    /\ farmer_no > Len(raw_files)
    /\ fpc' = "done"
    /\ UNCHANGED <<farmer_input, farmer_processed, farmer_table, farmer_exists, selected_mode,
                   raw_files, farmer_no, farmer_processed_count, farmer_failed_count>>
    /\ UNCHANGED <<parseVars, sanVars, quarantineVars, importVars, lookupVars, exportVars, numericVars>>

NextFarmer == ListFarmerFiles \/ ProcessFarmerFile \/ EndFarmerLoop

SpecFarmer == InitFarmer /\ [][NextFarmer]_vars

(* Properties of the loader *)

FarmerFileOfName(name) == FileNamed(farmer_input \o farmer_processed, name)

\* The files of the run for which write_deltalake was called and returned.
FarmerWritten ==
    SelectSeq(raw_files,
              LAMBDA name : process_farmer_xlsx_to_delta(FarmerFileOfName(name), "append", <<>>, FALSE).outcome
                                = "written")

RECURSIVE FarmerRowsOfAll(_)
FarmerRowsOfAll(names) ==
    IF names = <<>> THEN <<>>
    ELSE FarmerRows(FarmerFileOfName(names[1])) \o FarmerRowsOfAll(Tail(names))

\* C26: after a run with --mode overwrite in which at least one file was
\* written, the table holds exactly the rows written from this run's files
\* and no row that was there before the run.
C26_OverwriteWipesTheTable ==
    (fpc = "done" /\ selected_mode = "overwrite" /\ FarmerWritten # <<>>)
        => /\ farmer_table = FarmerRowsOfAll(FarmerWritten)
           /\ \A k \in DOMAIN farmer_table : farmer_table[k].file # 0

FarmerProvinces == {"ILOILO", "CAPIZ", "UNKNOWN"}

\* C27: with --mode dynamic_overwrite, the iteration for a file of province P
\* leaves the rows of every other province as they were; when the call
\* succeeds for a file that has municipality rows, P's rows are exactly the
\* rows of the file, and when it fails P's rows are the rows P had before.
C27_DynamicOverwriteTouchesOnePartition ==
    [][(ProcessFarmerFile /\ selected_mode = "dynamic_overwrite") =>
          LET f == FileNamed(farmer_input, raw_files[farmer_no])
              P == extract_province_from_filename(f)
              out == process_farmer_xlsx_to_delta(f, "dynamic_overwrite", farmer_table, farmer_exists)
          IN /\ \A Q \in FarmerProvinces \ {P} :
                    RowsOfProvince(farmer_table', Q) = RowsOfProvince(farmer_table, Q)
             /\ (out.ok /\ out.outcome = "written") => RowsOfProvince(farmer_table', P) = FarmerRows(f)
             /\ ~out.ok => RowsOfProvince(farmer_table', P) = RowsOfProvince(farmer_table, P)]_vars

====
